---- MODULE Spec2Model ----
(***************************************************************************)
(* A model of the k8s-custom-controller runtime:                           *)
(*   - MultiClusterManager (registry of per-cluster managers, StartAll's   *)
(*     fan-out/fan-in over goroutines and channels);                       *)
(*   - the HTTP /clusters handlers that call it concurrently;              *)
(*   - the deployment informer's event handlers and cache lookups.         *)
(***************************************************************************)
EXTENDS Integers, Sequences, FiniteSets, TLC

\* ------------------------------------------------------------------ bounds
\* Number of distinct ClusterIDs.
MaxClusters == 3
\* Calls one caller makes in a row on the manager (sequential use).
MaxSeqCalls == 4
\* Calls the concurrent HTTP requests make on the manager.
MaxCalls == 2
\* ClusterIDs the HTTP requests name.
MaxApiIDs == 2

\* Resource versions of the Deployments delivered.
MaxRV == 2

\* Rates (tokens per second) a token bucket is created with.
MaxRate == 3
\* Clock ticks in one second, and the last tick of the clock.
TicksPerSec == 2
MaxTime == 3
\* Calls of take() that are made on a bucket.
MaxTakes == 5
\* Calls of allow() that the requests make.
MaxAllows == 3
\* Client identities (IP addresses) that send requests.
MaxIPs == 3
\* The size of the identity table above which the cleanup clears it
\* (api.go 1003 has 1000; scaled down).
CleanupCeiling == 2
\* opts.Timeout of the informer is at most this many ticks.
MaxSyncTimeout == 2
\* Polls of HasSynced by WaitForCacheSync that are counted.
MaxPolls == 2
\* /clusters requests begun in one run.
MaxRequests == 3
\* /clusters requests begun in one run with two goroutines.
MaxConcurrentRequests == 2
\* Requests requestHandler is called for in one run.
MaxHandled == 3
\* RemoveCluster calls while the tasks run.
MaxRemoves == 1
MaxDeploymentRequests == 2

ClusterIDs == 1..MaxClusters
Rates == 1..MaxRate
\* Rates the per-IP limiter is configured with.
LimiterRates == {1, 2}
IPs == 1..MaxIPs
\* Goroutines that call take() or allow() (one per HTTP request in progress).
Goroutines == {"g1", "g2"}
\* Addresses of tokenBucket objects: at most one per table entry and one per
\* goroutine that still holds a replaced bucket are live at a time.
Addrs == 1..(MaxIPs + Cardinality(Goroutines))
ApiIDs == 1..MaxApiIDs
\* Concurrent callers: fasthttp runs each request on its own goroutine.
Handlers == {"h1", "h2"}
\* ClusterConfig.Name values.
Names == {"n1", "n2"}
\* api.go 672: ClusterID "primary-cluster".
PrimaryID == 1
\* (namespace, name) of the Deployments the watch delivers.
DeployKeys == {<<"default", "web">>, <<"prod", "web">>, <<"default", "api">>}
\* What else the handlers read of a Deployment: <<desired replicas, container
\* images, annotation custom-controller/monitored = "true">>.
DeploySpecs == {<<3, <<"v1">>, FALSE>>, <<5, <<"v1">>, FALSE>>, <<3, <<"v2">>, TRUE>>}

\* ------------------------------------------------------------------- state
VARIABLES
    managers,       \* m.managers: ClusterID -> manager handle (partial map)
    configs,        \* m.configs:  ClusterID -> ClusterConfig  (partial map)
    ctxDone,        \* the context passed to StartAll is cancelled
    saPc,           \* position of the goroutine running StartAll
    saRet,          \* StartAll's return value
    chanCap,        \* cap(errorCh) = len(m.managers) when it was made
    errorCh,        \* buffered values of errorCh (ClusterIDs of failed tasks)
    errorChClosed,  \* close(errorCh) has run
    doneChClosed,   \* close(doneCh) has run
    wg,             \* the WaitGroup counter
    rangeKeys,      \* keys of m.managers when the range loop began
    visited,        \* keys the range loop has produced
    task,           \* position of each per-cluster goroutine
    jPc,            \* position of the joiner goroutine
    panicked,       \* a goroutine panicked (send on a closed channel)
    reported,       \* history: ClusterIDs whose task sent on errorCh
    failed,         \* history: ClusterIDs whose Start returned an error
    cancelledInFlight, \* history: ctx was cancelled at the call or while tasks ran
    retSnap,        \* history: what held when StartAll returned
    hPc,            \* position of each caller goroutine (an HTTP request)
    hRet,           \* what the caller's last call returned
    hSnap,          \* history: the registry when the caller's call began
    nextHandle,     \* identity of the next manager NewManager constructs
    calls,          \* number of calls begun
    okAdds,         \* history: AddCluster calls that returned nil, per ClusterID
    okRems,         \* history: RemoveCluster calls that returned nil, per ClusterID
    fatal,          \* the Go runtime threw on a concurrent map access
    cache,          \* the deployment informer's indexer: key -> Deployment
    evLog,          \* log entries the last notification's handler emitted
    enableEventLogging, \* opts.EnableEventLogging
    lastNote,       \* history: the last notification applied, per (namespace, name)
    lastEv,         \* history: kind and payload types of the last notification
    now,            \* the clock time.Now() reads, in ticks
    buckets,        \* the tokenBucket objects: address -> fields
    bucketMu,       \* tokenBucket.mu of each: the goroutine that holds it, or ""
    limiters,       \* perIPLimiter.limiters: IP -> address of its tokenBucket
    limiterMu,      \* perIPLimiter.mu: the goroutine that holds it, or ""
    tokensPerSec,   \* perIPLimiter.tokensPerSec
    gPc,            \* position of each goroutine calling take() or allow()
    takes,          \* number of calls begun
    born,           \* history: when each tokenBucket was created
    results,        \* history: what the take() calls on each tokenBucket returned
    lastTake,       \* history: the last take() that returned, before and after
    lastOp,         \* history: the last updateLimit or cleanup tick
    siPc,           \* position of the goroutine running StartDeploymentInformer
    siRet,          \* StartDeploymentInformer's return value
    siOpts,         \* opts: DisableInformer, Timeout (in ticks)
    hasSynced,      \* informer.HasSynced()
    siElapsed,      \* ticks since context.WithTimeout(ctx, opts.Timeout)
    siPolls,        \* polls of HasSynced that found it false
    siLog,          \* info messages StartDeploymentInformer logged
    siWaits,        \* history: calls of cache.WaitForCacheSync
    http,           \* the /clusters request each HTTP goroutine serves, and its response
    requests,       \* number of /clusters requests begun
    rq,             \* the request each goroutine runs requestHandler for, and its response
    rateLimitCfg,   \* s.config...RateLimitRequestsPerSecond (0: unset, or s.config nil)
    ipLimiter,      \* s.ipLimiter is not nil
    handled,        \* number of requestHandler calls begun
    apiPc,          \* position of StartAPIServer's goroutine after the server started
    sigReceived,    \* a signal was delivered on sigChan
    stopLog,        \* messages StopAll logged
    apiFactory,     \* s.informerFactory: the factory StartComponents made
    depResp,        \* the last response of handleDeployments
    requestLimiterMux, \* s.requestLimiterMux: the goroutine that holds it, or ""
    limitersMade,   \* calls of newPerIPLimiter so far
    derefPanic,     \* the function in which a nil pointer was dereferenced, or ""
    ctrlLog,        \* log entries the controller's eventLogger emitted last
    sigChanClosed,  \* close(sigChan) has run in StartAPIServer
    sigPanic,       \* os/signal sent on the closed sigChan
    mock,           \* the MockManager: mu's holder, Started, Stopped, its ctx
    mockPc          \* position of each goroutine calling the MockManager

regVars == <<managers, configs>>
saVars == <<ctxDone, saPc, saRet, chanCap, errorCh, errorChClosed,
            doneChClosed, wg, rangeKeys, visited, task, jPc, panicked,
            reported, failed, cancelledInFlight, retSnap>>
hVars == <<hPc, hRet, hSnap, nextHandle, calls, okAdds, okRems, fatal>>
cacheVars == <<cache, evLog, enableEventLogging, lastNote, lastEv>>
rlVars == <<now, buckets, bucketMu, limiters, limiterMu, tokensPerSec, gPc, takes,
            born, results, lastTake, lastOp>>
syncVars == <<siPc, siRet, siOpts, hasSynced, siElapsed, siPolls, siLog, siWaits>>
httpVars == <<http, requests>>
reqVars == <<rq, rateLimitCfg, ipLimiter, handled>>
mainVars == <<apiPc, sigReceived, stopLog>>
depVars == <<apiFactory, depResp>>
muxVars == <<requestLimiterMux, limitersMade>>
nilVars == <<derefPanic, ctrlLog>>
sigVars == <<sigChanClosed, sigPanic>>
mockVars == <<mock, mockPc>>
tailVars == <<nilVars, sigVars, mockVars>>
lateVars == <<depVars, muxVars, tailVars>>
extVars == <<syncVars, httpVars, reqVars, mainVars, lateVars>>
vars == <<regVars, saVars, hVars, cacheVars, rlVars, extVars>>

\* ----------------------------------------------------------------- values
ErrNone == [kind |-> "none", id |-> 0]        \* StartAll has not returned
ErrNil == [kind |-> "nil", id |-> 0]          \* return nil
ErrCanceled == [kind |-> "canceled", id |-> 0] \* return ctx.Err()
\* fmt.Errorf("failed to start manager for cluster %s: %w", id, err)
ErrStart(id) == [kind |-> "startErr", id |-> id]

\* ClusterConfig, reduced to the fields the registry reads.
ClusterConfig(id, name) == [ClusterID |-> id, Name |-> name]

\* A map with key k set to v / with key k deleted.
MapSet(m, k, v) == [x \in (DOMAIN m) \cup {k} |-> IF x = k THEN v ELSE m[x]]
MapDelete(m, k) == [x \in (DOMAIN m) \ {k} |-> m[x]]
EmptyMap == [x \in {} |-> 0]

\* Task goroutines that were launched and have not finished (wg.Done not run).
Running == {c \in ClusterIDs : task[c] \notin {"none", "exited"}}

\* -------------------------------------------------------- NewMultiClusterManager
InitStartAllVars ==
    /\ saPc = "idle"
    /\ saRet = ErrNone
    /\ chanCap = 0
    /\ errorCh = <<>>
    /\ errorChClosed = FALSE
    /\ doneChClosed = FALSE
    /\ wg = 0
    /\ rangeKeys = {}
    /\ visited = {}
    /\ task = [c \in ClusterIDs |-> "none"]
    /\ jPc = "none"
    /\ panicked = FALSE
    /\ reported = {}
    /\ failed = {}
    /\ cancelledInFlight = FALSE
    /\ retSnap = [ctx |-> FALSE, reported |-> {}, failed |-> {}, running |-> {}]

\* ------------------------------------------------------------------ StartAll
\* The snapshot the return statements are judged by.
Snap == [ctx |-> ctxDone, reported |-> reported, failed |-> failed,
         running |-> Running]

\* return v
Return(v) ==
    /\ saPc' = "returned"
    /\ saRet' = v
    /\ retSnap' = Snap

\* runtime.go 641-654: the empty check, then the WaitGroup and the channels.
StartAllBegin ==
    /\ ~fatal
    /\ saPc = "idle"
    /\ IF Cardinality(DOMAIN managers) = 0
          THEN /\ Return(ErrNil)
               /\ UNCHANGED <<chanCap, rangeKeys, cancelledInFlight>>
          ELSE /\ saPc' = "range"
               /\ chanCap' = Cardinality(DOMAIN managers)
               /\ rangeKeys' = DOMAIN managers
               /\ cancelledInFlight' = ctxDone
               /\ UNCHANGED <<saRet, retSnap>>
    /\ UNCHANGED <<regVars, hVars, cacheVars, rlVars, extVars, ctxDone, errorCh, errorChClosed, doneChClosed, wg,
                   visited, task, jPc, panicked, reported, failed>>

\* runtime.go 657-659: one iteration of the range loop: wg.Add(1); go func(...).
\* A key deleted before it is reached is not produced; a key inserted during
\* the loop may be produced or skipped (Go's map iteration rule).
StartAllLaunch(c) ==
    /\ ~fatal
    /\ saPc = "range"
    /\ c \in (DOMAIN managers) \ visited
    /\ visited' = visited \cup {c}
    /\ wg' = wg + 1
    /\ task' = [task EXCEPT ![c] = "running"]
    /\ UNCHANGED <<regVars, hVars, cacheVars, rlVars, extVars, ctxDone, saPc, saRet, chanCap, errorCh, errorChClosed,
                   doneChClosed, rangeKeys, jPc, panicked, reported, failed,
                   cancelledInFlight, retSnap>>

\* runtime.go 679: the loop is over; go func() { wg.Wait(); ... }().
StartAllSpawnJoiner ==
    /\ ~fatal
    /\ saPc = "range"
    /\ (rangeKeys \cap DOMAIN managers) \subseteq visited
    /\ saPc' = "select"
    /\ jPc' = "wait"
    /\ UNCHANGED <<regVars, hVars, cacheVars, rlVars, extVars, ctxDone, saRet, chanCap, errorCh, errorChClosed,
                   doneChClosed, wg, rangeKeys, visited, task, panicked, reported,
                   failed, cancelledInFlight, retSnap>>

\* SelectCtxDone without the join: return ctx.Err() without <-doneCh.
SelectCtxDoneMutNoJoin ==
    /\ ~fatal
    /\ saPc = "select"
    /\ ctxDone
    /\ Return(ErrCanceled)
    /\ UNCHANGED <<regVars, hVars, cacheVars, rlVars, extVars, ctxDone, chanCap, errorCh, errorChClosed, doneChClosed,
                   wg, rangeKeys, visited, task, jPc, panicked, reported, failed,
                   cancelledInFlight>>

\* runtime.go 689-690: case <-ctx.Done(): go on to <-doneCh.
SelectCtxDone ==
    /\ ~fatal
    /\ saPc = "select"
    /\ ctxDone
    /\ saPc' = "ctxWait"
    /\ UNCHANGED <<regVars, hVars, cacheVars, rlVars, extVars, ctxDone, saRet, chanCap, errorCh, errorChClosed,
                   doneChClosed, wg, rangeKeys, visited, task, jPc, panicked,
                   reported, failed, cancelledInFlight, retSnap>>

\* SelectErrorCh that cancels the shared context when it received an error.
SelectErrorChMutCancels ==
    /\ ~fatal
    /\ saPc = "select"
    /\ IF Len(errorCh) > 0
          THEN /\ errorCh' = Tail(errorCh)
               /\ Return(ErrStart(Head(errorCh)))
               /\ ctxDone' = TRUE
          ELSE /\ errorChClosed
               /\ saPc' = "nilWait"
               /\ UNCHANGED <<errorCh, saRet, retSnap, ctxDone>>
    /\ UNCHANGED <<regVars, hVars, cacheVars, rlVars, extVars, chanCap, errorChClosed, doneChClosed, wg,
                   rangeKeys, visited, task, jPc, panicked, reported, failed,
                   cancelledInFlight>>

\* runtime.go 694-699: case err := <-errorCh. A buffered value is received
\* first; a closed and drained channel yields nil.
SelectErrorCh ==
    /\ ~fatal
    /\ saPc = "select"
    /\ IF Len(errorCh) > 0
          THEN /\ errorCh' = Tail(errorCh)
               /\ Return(ErrStart(Head(errorCh)))
          ELSE /\ errorChClosed
               /\ saPc' = "nilWait"
               /\ UNCHANGED <<errorCh, saRet, retSnap>>
    /\ UNCHANGED <<regVars, hVars, cacheVars, rlVars, extVars, ctxDone, chanCap, errorChClosed, doneChClosed, wg,
                   rangeKeys, visited, task, jPc, panicked, reported, failed,
                   cancelledInFlight>>

\* runtime.go 702-704: case <-doneCh: return nil.
SelectDoneCh ==
    /\ ~fatal
    /\ saPc = "select"
    /\ doneChClosed
    /\ Return(ErrNil)
    /\ UNCHANGED <<regVars, hVars, cacheVars, rlVars, extVars, ctxDone, chanCap, errorCh, errorChClosed, doneChClosed,
                   wg, rangeKeys, visited, task, jPc, panicked, reported, failed,
                   cancelledInFlight>>

\* runtime.go 691-692: <-doneCh; return ctx.Err().
CtxWaitDone ==
    /\ ~fatal
    /\ saPc = "ctxWait"
    /\ doneChClosed
    /\ Return(ErrCanceled)
    /\ UNCHANGED <<regVars, hVars, cacheVars, rlVars, extVars, ctxDone, chanCap, errorCh, errorChClosed, doneChClosed,
                   wg, rangeKeys, visited, task, jPc, panicked, reported, failed,
                   cancelledInFlight>>

\* runtime.go 699-700: <-doneCh; return nil.
NilWaitDone ==
    /\ ~fatal
    /\ saPc = "nilWait"
    /\ doneChClosed
    /\ Return(ErrNil)
    /\ UNCHANGED <<regVars, hVars, cacheVars, rlVars, extVars, ctxDone, chanCap, errorCh, errorChClosed, doneChClosed,
                   wg, rangeKeys, visited, task, jPc, panicked, reported, failed,
                   cancelledInFlight>>

\* ------------------------------------------------------ per-cluster goroutine
\* runtime.go 663: manager.Start(ctx) returns, with nil or with an error.
TaskStartReturns(c) ==
    /\ ~fatal
    /\ task[c] = "running"
    /\ \E r \in {"retNil", "retErr"} :
          /\ task' = [task EXCEPT ![c] = r]
          /\ failed' = IF r = "retErr" THEN failed \cup {c} ELSE failed
    /\ UNCHANGED <<regVars, hVars, cacheVars, rlVars, extVars, ctxDone, saPc, saRet, chanCap, errorCh, errorChClosed,
                   doneChClosed, wg, rangeKeys, visited, jPc, panicked, reported,
                   cancelledInFlight, retSnap>>

\* runtime.go 663: if err != nil && ctx.Err() == nil.
TaskCheck(c) ==
    /\ ~fatal
    /\ task[c] \in {"retNil", "retErr"}
    /\ task' = [task EXCEPT ![c] =
                   IF task[c] = "retErr" /\ ~ctxDone THEN "sending" ELSE "stopping"]
    /\ UNCHANGED <<regVars, hVars, cacheVars, rlVars, extVars, ctxDone, saPc, saRet, chanCap, errorCh, errorChClosed,
                   doneChClosed, wg, rangeKeys, visited, jPc, panicked, reported,
                   failed, cancelledInFlight, retSnap>>

\* runtime.go 670-671: errorCh <- fmt.Errorf(...); return. The send blocks
\* while the buffer is full and panics on a closed channel.
TaskSend(c) ==
    /\ ~fatal
    /\ task[c] = "sending"
    /\ errorChClosed \/ Len(errorCh) < chanCap
    /\ errorCh' = IF errorChClosed THEN errorCh ELSE Append(errorCh, c)
    /\ panicked' = (panicked \/ errorChClosed)
    /\ reported' = IF errorChClosed THEN reported ELSE reported \cup {c}
    /\ task' = [task EXCEPT ![c] = "stopping"]
    /\ UNCHANGED <<regVars, hVars, cacheVars, rlVars, extVars, ctxDone, saPc, saRet, chanCap, errorChClosed,
                   doneChClosed, wg, rangeKeys, visited, jPc, failed,
                   cancelledInFlight, retSnap>>

\* runtime.go 660: defer wg.Done().
TaskDone(c) ==
    /\ ~fatal
    /\ task[c] = "stopping"
    /\ wg' = wg - 1
    /\ task' = [task EXCEPT ![c] = "exited"]
    /\ UNCHANGED <<regVars, hVars, cacheVars, rlVars, extVars, ctxDone, saPc, saRet, chanCap, errorCh, errorChClosed,
                   doneChClosed, rangeKeys, visited, jPc, panicked, reported,
                   failed, cancelledInFlight, retSnap>>

\* ------------------------------------------------------------ joiner goroutine
\* JoinerWait without wg.Wait(): doneCh is closed while tasks still run.
JoinerWaitMutNoWait ==
    /\ ~fatal
    /\ jPc = "wait"
    /\ doneChClosed' = TRUE
    /\ jPc' = "closeErr"
    /\ UNCHANGED <<regVars, hVars, cacheVars, rlVars, extVars, ctxDone, saPc, saRet, chanCap, errorCh, errorChClosed,
                   wg, rangeKeys, visited, task, panicked, reported, failed,
                   cancelledInFlight, retSnap>>

\* runtime.go 680-681: wg.Wait(); close(doneCh).
JoinerWait ==
    /\ ~fatal
    /\ jPc = "wait"
    /\ wg = 0
    /\ doneChClosed' = TRUE
    /\ jPc' = "closeErr"
    /\ UNCHANGED <<regVars, hVars, cacheVars, rlVars, extVars, ctxDone, saPc, saRet, chanCap, errorCh, errorChClosed,
                   wg, rangeKeys, visited, task, panicked, reported, failed,
                   cancelledInFlight, retSnap>>

\* runtime.go 682: close(errorCh).
JoinerCloseErr ==
    /\ ~fatal
    /\ jPc = "closeErr"
    /\ errorChClosed' = TRUE
    /\ jPc' = "done"
    /\ UNCHANGED <<regVars, hVars, cacheVars, rlVars, extVars, ctxDone, saPc, saRet, chanCap, errorCh, doneChClosed,
                   wg, rangeKeys, visited, task, panicked, reported, failed,
                   cancelledInFlight, retSnap>>

\* ----------------------------------------------------------------- the caller
\* The owner of the context cancels it (api.go 785-791, a test's cancel()).
Cancel ==
    /\ ~fatal
    /\ ~ctxDone
    /\ ctxDone' = TRUE
    /\ cancelledInFlight' = (cancelledInFlight \/ Running # {})
    /\ UNCHANGED <<regVars, hVars, cacheVars, rlVars, extVars, saPc, saRet, chanCap, errorCh, errorChClosed,
                   doneChClosed, wg, rangeKeys, visited, task, jPc, panicked,
                   reported, failed, retSnap>>

\* ------------------------------------------------- callers of the manager
Idle == [op |-> "none", id |-> 0, name |-> "", at |-> "idle", in |-> FALSE, mgr |-> 0]
NoRet == [err |-> "none", val |-> 0]

InitCallers ==
    /\ hPc = [h \in Handlers |-> Idle]
    /\ hRet = [h \in Handlers |-> NoRet]
    /\ hSnap = [h \in Handlers |-> [managers |-> EmptyMap, configs |-> EmptyMap]]
    /\ calls = 0
    /\ okAdds = [c \in ClusterIDs |-> 0]
    /\ okRems = [c \in ClusterIDs |-> 0]
    /\ fatal = FALSE

\* The map access a caller performs at each position: <<map, mode>>.
AccessAt(pc) ==
    CASE pc.at = "addCheck" -> <<"configs", "r">>      \* runtime.go 589
      [] pc.at = "addStoreMgr" -> <<"managers", "w">>  \* runtime.go 606
      [] pc.at = "addStoreCfg" -> <<"configs", "w">>   \* runtime.go 607
      [] pc.at = "remCheck" -> <<"managers", "r">>     \* runtime.go 622
      [] pc.at = "remDelMgr" -> <<"managers", "w">>    \* runtime.go 628
      [] pc.at = "remDelCfg" -> <<"configs", "w">>     \* runtime.go 629
      [] pc.at = "getClusters" -> <<"configs", "r">>   \* runtime.go 735-738
      [] pc.at = "getCount" -> <<"configs", "r">>      \* runtime.go 744
      [] OTHER -> <<"none", "r">>

\* The map accesses in progress: a caller between the start and the end of a
\* map operation, and StartAll while its range loop iterates m.managers.
InAccess == {<<h, AccessAt(hPc[h])>> : h \in {g \in Handlers : hPc[g].in}}
               \cup (IF saPc = "range" THEN {<<"StartAll", <<"managers", "r">>>>} ELSE {})

\* Two accesses of different goroutines to one map, one of them a write.
Conflict(a, b) ==
    /\ a[1] # b[1]
    /\ a[2][1] = b[2][1]
    /\ "w" \in {a[2][2], b[2][2]}

Racing(h) == \E a \in InAccess : \E b \in InAccess : a[1] = h /\ Conflict(a, b)

\* The struct has no mutex (runtime.go 352-356): a map operation starts
\* whenever the goroutine reaches it.
Enter(h) ==
    /\ ~fatal
    /\ AccessAt(hPc[h])[1] # "none"
    /\ ~hPc[h].in
    /\ hPc' = [hPc EXCEPT ![h].in = TRUE]
    /\ UNCHANGED <<regVars, saVars, cacheVars, rlVars, extVars, hRet, hSnap, nextHandle, calls, okAdds, okRems, fatal>>

\* A map operation that overlaps a write of another goroutine is a data race:
\* the runtime may throw "concurrent map read and map write" / "concurrent
\* map writes" and end the process, or the operation may complete.
FatalRace(h) ==
    /\ ~fatal
    /\ hPc[h].in
    /\ Racing(h)
    /\ fatal' = TRUE
    /\ UNCHANGED <<regVars, saVars, cacheVars, rlVars, extVars, hPc, hRet, hSnap, nextHandle, calls, okAdds, okRems>>

\* The caller's call returns r.
Ret(h, e, v) ==
    /\ hPc' = [hPc EXCEPT ![h].at = "ret", ![h].in = FALSE]
    /\ hRet' = [hRet EXCEPT ![h] = [err |-> e, val |-> v]]

\* A call begins: the caller is at the call's first statement.
Call(h, op, id, name, at) ==
    /\ ~fatal
    /\ hPc[h].at = "idle"
    /\ hPc' = [hPc EXCEPT ![h] = [op |-> op, id |-> id, name |-> name, at |-> at,
                                  in |-> FALSE, mgr |-> 0]]
    /\ hRet' = [hRet EXCEPT ![h] = NoRet]
    /\ hSnap' = [hSnap EXCEPT ![h] = [managers |-> managers, configs |-> configs]]
    /\ calls' = calls + 1
    /\ UNCHANGED <<regVars, saVars, cacheVars, rlVars, extVars, nextHandle, okAdds, okRems, fatal>>

\* -------------------------------------------------------------- AddCluster
CallAddCluster(h, id, name) == Call(h, "add", id, name, "addCheck")

\* AddClusterCheck without the early return on a registered ClusterID.
AddClusterCheckMutNoReturn(h) ==
    /\ ~fatal
    /\ hPc[h].at = "addCheck" /\ hPc[h].in
    /\ hPc' = [hPc EXCEPT ![h].at = "addConstruct", ![h].in = FALSE]
    /\ UNCHANGED <<regVars, saVars, cacheVars, rlVars, extVars, hRet, hSnap, nextHandle, calls, okAdds, okRems, fatal>>

\* runtime.go 589-591: if _, exists := m.configs[config.ClusterID]; exists.
AddClusterCheck(h) ==
    /\ ~fatal
    /\ hPc[h].at = "addCheck" /\ hPc[h].in
    /\ IF hPc[h].id \in DOMAIN configs
          THEN Ret(h, "alreadyExists", 0)
          ELSE /\ hPc' = [hPc EXCEPT ![h].at = "addConstruct", ![h].in = FALSE]
               /\ UNCHANGED hRet
    /\ UNCHANGED <<regVars, saVars, cacheVars, rlVars, extVars, hSnap, nextHandle, calls, okAdds, okRems, fatal>>

\* runtime.go 594-603: NewManager(config), then
\* AddDeploymentControllerWithLogging(mgr, id); either may fail (bad credentials,
\* clientset or builder error), and then AddCluster returns the error.
AddClusterConstruct(h) ==
    /\ ~fatal
    /\ hPc[h].at = "addConstruct"
    /\ \E ok \in BOOLEAN :
          IF ok
             THEN /\ hPc' = [hPc EXCEPT ![h].at = "addStoreMgr", ![h].mgr = nextHandle]
                  /\ nextHandle' = nextHandle + 1
                  /\ UNCHANGED hRet
             ELSE /\ Ret(h, "createFailed", 0)
                  /\ UNCHANGED nextHandle
    /\ UNCHANGED <<regVars, saVars, cacheVars, rlVars, extVars, hSnap, calls, okAdds, okRems, fatal>>

\* runtime.go 606: m.managers[config.ClusterID] = mgr.
AddClusterStoreManager(h) ==
    /\ ~fatal
    /\ hPc[h].at = "addStoreMgr" /\ hPc[h].in
    /\ managers' = MapSet(managers, hPc[h].id, hPc[h].mgr)
    /\ hPc' = [hPc EXCEPT ![h].at = "addStoreCfg", ![h].in = FALSE]
    /\ UNCHANGED <<configs, saVars, cacheVars, rlVars, extVars, hRet, hSnap, nextHandle, calls, okAdds, okRems, fatal>>

\* runtime.go 607-616: m.configs[config.ClusterID] = config; return nil.
AddClusterStoreConfig(h) ==
    /\ ~fatal
    /\ hPc[h].at = "addStoreCfg" /\ hPc[h].in
    /\ configs' = MapSet(configs, hPc[h].id, ClusterConfig(hPc[h].id, hPc[h].name))
    /\ Ret(h, "nil", 0)
    /\ okAdds' = [okAdds EXCEPT ![hPc[h].id] = @ + 1]
    /\ UNCHANGED <<managers, saVars, cacheVars, rlVars, extVars, hSnap, nextHandle, calls, okRems, fatal>>

\* ----------------------------------------------------------- RemoveCluster
CallRemoveCluster(h, id) == Call(h, "remove", id, "", "remCheck")

\* runtime.go 622-625: _, exists := m.managers[clusterID]; if !exists.
RemoveClusterCheck(h) ==
    /\ ~fatal
    /\ hPc[h].at = "remCheck" /\ hPc[h].in
    /\ IF hPc[h].id \in DOMAIN managers
          THEN /\ hPc' = [hPc EXCEPT ![h].at = "remDelMgr", ![h].in = FALSE]
               /\ UNCHANGED hRet
          ELSE Ret(h, "doesNotExist", 0)
    /\ UNCHANGED <<regVars, saVars, cacheVars, rlVars, extVars, hSnap, nextHandle, calls, okAdds, okRems, fatal>>

\* RemoveClusterDeleteManager that also stops the cluster's running task.
RemoveClusterDeleteManagerMutStopsTask(h) ==
    /\ ~fatal
    /\ hPc[h].at = "remDelMgr" /\ hPc[h].in
    /\ managers' = MapDelete(managers, hPc[h].id)
    /\ task' = [task EXCEPT ![hPc[h].id] = IF @ = "running" THEN "retNil" ELSE @]
    /\ hPc' = [hPc EXCEPT ![h].at = "remDelCfg", ![h].in = FALSE]
    /\ UNCHANGED <<configs, cacheVars, rlVars, extVars, hRet, hSnap, nextHandle, calls,
                   okAdds, okRems, fatal, ctxDone, saPc, saRet, chanCap, errorCh,
                   errorChClosed, doneChClosed, wg, rangeKeys, visited, jPc, panicked,
                   reported, failed, cancelledInFlight, retSnap>>

\* runtime.go 628: delete(m.managers, clusterID).
RemoveClusterDeleteManager(h) ==
    /\ ~fatal
    /\ hPc[h].at = "remDelMgr" /\ hPc[h].in
    /\ managers' = MapDelete(managers, hPc[h].id)
    /\ hPc' = [hPc EXCEPT ![h].at = "remDelCfg", ![h].in = FALSE]
    /\ UNCHANGED <<configs, saVars, cacheVars, rlVars, extVars, hRet, hSnap, nextHandle, calls, okAdds, okRems, fatal>>

\* RemoveClusterDeleteConfig without delete(m.configs, clusterID).
RemoveClusterDeleteConfigMutKeep(h) ==
    /\ ~fatal
    /\ hPc[h].at = "remDelCfg" /\ hPc[h].in
    /\ configs' = configs
    /\ Ret(h, "nil", 0)
    /\ okRems' = [okRems EXCEPT ![hPc[h].id] = @ + 1]
    /\ UNCHANGED <<managers, saVars, cacheVars, rlVars, extVars, hSnap, nextHandle, calls, okAdds, fatal>>

\* runtime.go 629-636: delete(m.configs, clusterID); return nil.
\* (630: delete(m.controllers, clusterID) acts on a map nothing ever fills.)
RemoveClusterDeleteConfig(h) ==
    /\ ~fatal
    /\ hPc[h].at = "remDelCfg" /\ hPc[h].in
    /\ configs' = MapDelete(configs, hPc[h].id)
    /\ Ret(h, "nil", 0)
    /\ okRems' = [okRems EXCEPT ![hPc[h].id] = @ + 1]
    /\ UNCHANGED <<managers, saVars, cacheVars, rlVars, extVars, hSnap, nextHandle, calls, okAdds, fatal>>

\* ------------------------------------------ GetClusters / GetClusterCount
CallGetClusters(h) == Call(h, "getClusters", 0, "", "getClusters")

\* runtime.go 734-740: the configs of m.configs, in a slice.
GetClusters(h) ==
    /\ ~fatal
    /\ hPc[h].at = "getClusters" /\ hPc[h].in
    /\ Ret(h, "nil", {configs[c] : c \in DOMAIN configs})
    /\ UNCHANGED <<regVars, saVars, cacheVars, rlVars, extVars, hSnap, nextHandle, calls, okAdds, okRems, fatal>>

CallGetClusterCount(h) == Call(h, "getCount", 0, "", "getCount")

\* runtime.go 743-745: return len(m.configs).
GetClusterCount(h) ==
    /\ ~fatal
    /\ hPc[h].at = "getCount" /\ hPc[h].in
    /\ Ret(h, "nil", Cardinality(DOMAIN configs))
    /\ UNCHANGED <<regVars, saVars, cacheVars, rlVars, extVars, hSnap, nextHandle, calls, okAdds, okRems, fatal>>

\* The caller has its result and is free for the next call.
Finish(h) ==
    /\ ~fatal
    /\ hPc[h].at = "ret"
    /\ hPc' = [hPc EXCEPT ![h] = Idle]
    /\ UNCHANGED <<regVars, saVars, cacheVars, rlVars, extVars, hRet, hSnap, nextHandle, calls, okAdds, okRems, fatal>>

\* ------------------------------------------------------ deployment informer
\* appsv1.Deployment, reduced to what the handlers and the cache lookups read.
Deployment(ns, name, rv, spec) ==
    [Namespace |-> ns, Name |-> name, ResourceVersion |-> rv,
     Replicas |-> spec[1], Containers |-> spec[2], Monitored |-> spec[3]]

\* The objects the watch delivers: the "web" Deployments in every resource
\* version and state, "default/api" in one (it is there for the lookups by
\* key and namespace, not for the updates).
Deployments ==
    {d \in {Deployment(k[1], k[2], rv, sp) :
                k \in DeployKeys, rv \in 1..MaxRV, sp \in DeploySpecs} :
        d.Name = "api" => (d.ResourceVersion = 1 /\ d.Replicas = 3 /\ ~d.Monitored)}

\* The key the informer's indexer files an object under (the informer of
\* config.go 227 keys its store by "<namespace>/<name>").
StoreKey(d) == d.Namespace \o "/" \o d.Name

NoNote == [kind |-> "none", obj |-> 0]
NoEvent == [kind |-> "none", oldType |-> "", newType |-> ""]

InitCache ==
    /\ cache = EmptyMap
    /\ evLog = <<>>
    /\ lastNote = [k \in DeployKeys |-> NoNote]
    /\ lastEv = NoEvent

LogEntry(level, msg, d) ==
    [level |-> level, msg |-> msg, name |-> d.Name, namespace |-> d.Namespace]

\* An entry that carries the name only (config.go 322, 337-341, 348-352, 365).
LogName(level, msg, d) ==
    [level |-> level, msg |-> msg, name |-> d.Name, namespace |-> ""]

\* config.go 312-324: processDeploymentAdd.
processDeploymentAdd(d) ==
    <<LogEntry("debug", "Processing add event", d)>>
       \o (IF d.Monitored
              THEN <<LogName("info", "Found monitored deployment", d)>>
              ELSE <<>>)

\* config.go 370-375: getContainerImage.
getContainerImage(d) ==
    IF Len(d.Containers) = 0 THEN "<unknown>" ELSE d.Containers[1]

\* processDeploymentUpdate with the scale entry written on every update.
processDeploymentUpdateMutAlwaysScaled(old, new) ==
    <<LogEntry("debug", "Processing update event", new)>>
       \o <<LogName("info", "Deployment scaled", new)>>
       \o (IF getContainerImage(old) # getContainerImage(new)
              THEN <<LogName("info", "Deployment image updated", new)>>
              ELSE <<>>)

\* config.go 326-354: processDeploymentUpdate.
processDeploymentUpdate(old, new) ==
    <<LogEntry("debug", "Processing update event", new)>>
       \o (IF old.Replicas # new.Replicas
              THEN <<LogName("info", "Deployment scaled", new)>>
              ELSE <<>>)
       \o (IF getContainerImage(old) # getContainerImage(new)
              THEN <<LogName("info", "Deployment image updated", new)>>
              ELSE <<>>)

\* config.go 356-367: processDeploymentDelete.
processDeploymentDelete(d) ==
    <<LogEntry("debug", "Processing delete event", d)>>
       \o (IF d.Monitored
              THEN <<LogName("info", "Monitored deployment was deleted", d)>>
              ELSE <<>>)

\* A notification's payload (interface{}): a *appsv1.Deployment, a
\* cache.DeletedFinalStateUnknown that wraps a payload, or an object of another
\* type (its metadata is written like a Deployment's, so that a handler which
\* went on after a failed type assertion would be seen processing it).
AsDeployment(d) == [type |-> "Deployment", obj |-> d]
AsTombstone(payload) == [type |-> "DeletedFinalStateUnknown", obj |-> payload]
AsOther(d) == [type |-> "Other", obj |-> d]

\* The dynamic type of a payload, as the handlers' type assertions see it.
TypeOf(payload) ==
    IF payload.type = "DeletedFinalStateUnknown"
       THEN "DeletedFinalStateUnknown of " \o payload.obj.type
       ELSE payload.type

\* The record of a notification: its kind and the types of its payloads.
Event(kind, old, new) ==
    [kind |-> kind,
     oldType |-> IF kind = "update" THEN TypeOf(old) ELSE "",
     newType |-> TypeOf(new)]

Warn(msg) == [level |-> "warn", msg |-> msg, name |-> "", namespace |-> ""]

\* AddFunc without the check of the type assertion's ok.
AddFuncMutNoTypeCheck(obj) ==
    processDeploymentAdd(obj.obj)
       \o (IF enableEventLogging
              THEN <<LogEntry("info", "Deployment added", obj.obj)>>
              ELSE <<>>)

\* config.go 231-245: AddFunc.
AddFunc(obj) ==
    IF obj.type # "Deployment"
       THEN <<Warn("Received non-deployment object in add event")>>
       ELSE processDeploymentAdd(obj.obj)
               \o (IF enableEventLogging
                      THEN <<LogEntry("info", "Deployment added", obj.obj)>>
                      ELSE <<>>)

\* UpdateFunc without the resourceVersion comparison.
UpdateFuncMutNoSkip(oldObj, newObj) ==
    IF oldObj.type # "Deployment" \/ newObj.type # "Deployment"
       THEN <<Warn("Received non-deployment object in update event")>>
       ELSE processDeploymentUpdate(oldObj.obj, newObj.obj)
               \o (IF enableEventLogging
                      THEN <<LogEntry("info", "Deployment updated", newObj.obj)>>
                      ELSE <<>>)

\* config.go 246-266: UpdateFunc.
UpdateFunc(oldObj, newObj) ==
    IF oldObj.type # "Deployment" \/ newObj.type # "Deployment"
       THEN <<Warn("Received non-deployment object in update event")>>
       ELSE IF oldObj.obj.ResourceVersion = newObj.obj.ResourceVersion
               THEN <<>>
               ELSE processDeploymentUpdate(oldObj.obj, newObj.obj)
                       \o (IF enableEventLogging
                              THEN <<LogEntry("info", "Deployment updated", newObj.obj)>>
                              ELSE <<>>)

\* config.go 284-290: the end of DeleteFunc, once it holds a Deployment.
DeleteFuncTail(d) ==
    processDeploymentDelete(d)
       \o (IF enableEventLogging
              THEN <<LogEntry("info", "Deployment deleted", d)>>
              ELSE <<>>)

\* DeleteFunc without the recovery from DeletedFinalStateUnknown.
DeleteFuncMutNoTombstone(obj) ==
    IF obj.type = "Deployment"
       THEN DeleteFuncTail(obj.obj)
       ELSE <<Warn("Received non-deployment object in delete event")>>

\* config.go 267-291: DeleteFunc; a DeletedFinalStateUnknown tombstone is
\* unwrapped to the Deployment it carries.
DeleteFunc(obj) ==
    IF obj.type = "Deployment"
       THEN DeleteFuncTail(obj.obj)
       ELSE IF obj.type # "DeletedFinalStateUnknown"
               THEN <<Warn("Received non-deployment object in delete event")>>
               ELSE IF obj.obj.type # "Deployment"
                       THEN <<Warn("Tombstone contained non-deployment object")>>
                       ELSE DeleteFuncTail(obj.obj.obj)

\* FindDeploymentInCache with the key built from the name alone.
FindDeploymentInCacheMutNameOnly(namespace, name) ==
    LET key == name
    IN  IF key \in DOMAIN cache
           THEN [found |-> TRUE, obj |-> cache[key]]
           ELSE [found |-> FALSE, obj |-> 0]

\* config.go 378-394: FindDeploymentInCache: GetByKey(namespace + "/" + name).
FindDeploymentInCache(namespace, name) ==
    LET key == namespace \o "/" \o name
    IN  IF key \in DOMAIN cache
           THEN [found |-> TRUE, obj |-> cache[key]]
           ELSE [found |-> FALSE, obj |-> 0]

\* config.go 419-437: ListDeploymentsInCache: the indexer's objects, filtered
\* by namespace when one is given (the order of the slice is the indexer's).
ListDeploymentsInCache(namespace) ==
    {cache[k] : k \in {x \in DOMAIN cache :
                          namespace = "" \/ cache[x].Namespace = namespace}}

\* The API server gives every stored state of an object its own resource
\* version: an object delivered under the resource version of the cached one
\* (a resync, a re-list after a dropped watch) is the cached object.
Deliverable(d) ==
    (StoreKey(d) \in DOMAIN cache
        /\ cache[StoreKey(d)].ResourceVersion = d.ResourceVersion)
      => d = cache[StoreKey(d)]

\* The informer takes an added or modified (or re-listed) object from the
\* watch: it files it in the indexer, and notifies AddFunc if the key was not
\* cached and UpdateFunc, with the cached object as the old one, if it was.
InformerUpsert(d) ==
    /\ Deliverable(d)
    /\ cache' = MapSet(cache, StoreKey(d), d)
    /\ IF StoreKey(d) \in DOMAIN cache
          THEN /\ evLog' = UpdateFunc(AsDeployment(cache[StoreKey(d)]), AsDeployment(d))
               /\ lastNote' = [lastNote EXCEPT ![<<d.Namespace, d.Name>>] =
                                  [kind |-> "update", obj |-> d]]
               /\ lastEv' = Event("update", AsDeployment(cache[StoreKey(d)]),
                                   AsDeployment(d))
          ELSE /\ evLog' = AddFunc(AsDeployment(d))
               /\ lastNote' = [lastNote EXCEPT ![<<d.Namespace, d.Name>>] =
                                  [kind |-> "add", obj |-> d]]
               /\ lastEv' = Event("add", 0, AsDeployment(d))
    /\ UNCHANGED <<regVars, saVars, hVars, rlVars, extVars, enableEventLogging>>

\* The informer takes a deletion of a cached object: it removes the key from
\* the indexer and notifies DeleteFunc, with the Deployment or, when the
\* delete event itself was missed, with a tombstone that wraps it.
InformerDelete(d, tombstone) ==
    /\ StoreKey(d) \in DOMAIN cache
    /\ d = cache[StoreKey(d)]
    /\ cache' = MapDelete(cache, StoreKey(d))
    /\ LET obj == IF tombstone THEN AsTombstone(AsDeployment(d)) ELSE AsDeployment(d)
       IN  /\ evLog' = DeleteFunc(obj)
           /\ lastEv' = Event("delete", 0, obj)
    /\ lastNote' = [lastNote EXCEPT ![<<d.Namespace, d.Name>>] =
                       [kind |-> "delete", obj |-> 0]]
    /\ UNCHANGED <<regVars, saVars, hVars, rlVars, extVars, enableEventLogging>>

\* Objects of another type a handler may be handed.
OtherObjects == {d \in Deployments : d.Name = "api"}

\* A handler is called with a payload that is not a Deployment. The handlers
\* hold no reference to the indexer (config.go 230-292 close over opts only),
\* so the call leaves it as it is.
HandlerGetsOther(kind, old, new) ==
    /\ evLog' = CASE kind = "add" -> AddFunc(new)
                  [] kind = "update" -> UpdateFunc(old, new)
                  [] kind = "delete" -> DeleteFunc(new)
    /\ lastEv' = Event(kind, old, new)
    /\ UNCHANGED <<regVars, saVars, hVars, rlVars, extVars, cache, lastNote, enableEventLogging>>

\* The <<old, new>> payloads of such calls, for each kind of notification.
OtherPayloads(kind) ==
    UNION {CASE kind = "add" -> {<<0, AsOther(o)>>}
             [] kind = "update" -> {<<AsOther(o), AsDeployment(o)>>,
                                    <<AsDeployment(o), AsOther(o)>>,
                                    <<AsOther(o), AsOther(o)>>}
             [] kind = "delete" -> {<<0, AsOther(o)>>,
                                    <<0, AsTombstone(AsOther(o))>>}
           : o \in OtherObjects}

\* ------------------------------------------------------------ tokenBucket
\* newTokenBucket that starts the bucket empty.
newTokenBucketMutEmpty(tokensPerSecond) ==
    [tokens |-> 0, capacity |-> tokensPerSecond,
     refillRate |-> tokensPerSecond, lastRefill |-> now]

\* api.go 899-906: newTokenBucket.
newTokenBucket(tokensPerSecond) ==
    [tokens |-> tokensPerSecond, capacity |-> tokensPerSecond,
     refillRate |-> tokensPerSecond, lastRefill |-> now]

GIdle == [at |-> "idle", ip |-> 0, b |-> 0, now |-> 0, newTokens |-> 0,
          tokens0 |-> 0, lastRefill0 |-> 0, ret |-> FALSE]
NoTake == [b |-> 0, tokens0 |-> 0, lastRefill0 |-> 0, now |-> 0, newTokens |-> 0,
           rate |-> 0, capacity |-> 0, tokens1 |-> 0, lastRefill1 |-> 0, ret |-> FALSE]

\* The clock at 0, no call in progress, the tokenBucket objects of bs
\* (address -> rate) just created and a perIPLimiter with rate tps, its table
\* empty (api.go 945-956: newPerIPLimiter); tps = 0 stands for no limiter.
InitLimiterVars(tps, bs) ==
    /\ now = 0
    /\ buckets = [a \in DOMAIN bs |-> newTokenBucket(bs[a])]
    /\ bucketMu = [a \in DOMAIN bs |-> ""]
    /\ limiters = EmptyMap
    /\ limiterMu = ""
    /\ tokensPerSec = tps
    /\ gPc = [g \in Goroutines |-> GIdle]
    /\ takes = 0
    /\ born = [a \in DOMAIN bs |-> now]
    /\ results = [a \in DOMAIN bs |-> <<>>]
    /\ lastTake = NoTake
    /\ lastOp = "none"

\* Time passes.
Tick ==
    /\ now < MaxTime
    /\ now' = now + 1
    /\ UNCHANGED <<regVars, saVars, hVars, cacheVars, extVars, buckets, bucketMu, limiters,
                   limiterMu, tokensPerSec, gPc, takes, born, results, lastTake, lastOp>>

\* A goroutine calls tb.take() on the bucket at address b.
CallTake(g, b) ==
    /\ gPc[g].at = "idle"
    /\ b \in DOMAIN buckets
    /\ gPc' = [gPc EXCEPT ![g] = [GIdle EXCEPT !.at = "lock", !.b = b]]
    /\ takes' = takes + 1
    /\ UNCHANGED <<regVars, saVars, hVars, cacheVars, extVars, now, buckets, bucketMu, limiters,
                   limiterMu, tokensPerSec, born, results, lastTake, lastOp>>

\* api.go 911: tb.mu.Lock().
TakeLock(g) ==
    /\ gPc[g].at = "lock"
    /\ bucketMu[gPc[g].b] = ""
    /\ bucketMu' = [bucketMu EXCEPT ![gPc[g].b] = g]
    /\ gPc' = [gPc EXCEPT ![g].at = "clock"]
    /\ UNCHANGED <<regVars, saVars, hVars, cacheVars, extVars, now, buckets, limiters, limiterMu,
                   tokensPerSec, takes, born, results, lastTake, lastOp>>

\* api.go 915-917: now := time.Now(); elapsed := now.Sub(tb.lastRefill).Seconds();
\* newTokens := int(elapsed * float64(tb.refillRate)). The clock is monotonic,
\* so elapsed >= 0 and int() is the floor.
TakeReadClock(g) ==
    /\ gPc[g].at = "clock"
    /\ LET tb == buckets[gPc[g].b]
           elapsed == now - tb.lastRefill
       IN  gPc' = [gPc EXCEPT ![g].at = "refill",
                              ![g].now = now,
                              ![g].newTokens = (elapsed * tb.refillRate) \div TicksPerSec,
                              ![g].tokens0 = tb.tokens,
                              ![g].lastRefill0 = tb.lastRefill]
    /\ UNCHANGED <<regVars, saVars, hVars, cacheVars, extVars, now, buckets, bucketMu, limiters,
                   limiterMu, tokensPerSec, takes, born, results, lastTake, lastOp>>

\* api.go 919-920: if newTokens > 0 { tb.tokens = tb.tokens + newTokens.
TakeRefillAdd(g) ==
    /\ gPc[g].at = "refill"
    /\ IF gPc[g].newTokens > 0
          THEN /\ buckets' = [buckets EXCEPT ![gPc[g].b].tokens = @ + gPc[g].newTokens]
               /\ gPc' = [gPc EXCEPT ![g].at = "cap"]
          ELSE /\ gPc' = [gPc EXCEPT ![g].at = "consume"]
               /\ UNCHANGED buckets
    /\ UNCHANGED <<regVars, saVars, hVars, cacheVars, extVars, now, bucketMu, limiters, limiterMu,
                   tokensPerSec, takes, born, results, lastTake, lastOp>>

\* TakeRefillCap without the cap at tb.capacity.
TakeRefillCapMutNoCap(g) ==
    /\ gPc[g].at = "cap"
    /\ buckets' = [buckets EXCEPT ![gPc[g].b].lastRefill = gPc[g].now]
    /\ gPc' = [gPc EXCEPT ![g].at = "consume"]
    /\ UNCHANGED <<regVars, saVars, hVars, cacheVars, extVars, now, bucketMu, limiters, limiterMu,
                   tokensPerSec, takes, born, results, lastTake, lastOp>>

\* api.go 921-925: if tb.tokens > tb.capacity { tb.tokens = tb.capacity };
\* tb.lastRefill = now }.
TakeRefillCap(g) ==
    /\ gPc[g].at = "cap"
    /\ LET tb == buckets[gPc[g].b]
       IN  buckets' = [buckets EXCEPT
                          ![gPc[g].b].tokens = IF tb.tokens > tb.capacity
                                                  THEN tb.capacity ELSE tb.tokens,
                          ![gPc[g].b].lastRefill = gPc[g].now]
    /\ gPc' = [gPc EXCEPT ![g].at = "consume"]
    /\ UNCHANGED <<regVars, saVars, hVars, cacheVars, extVars, now, bucketMu, limiters, limiterMu,
                   tokensPerSec, takes, born, results, lastTake, lastOp>>

\* The record of a take() that returns ret, leaving tokens1 in the bucket.
TakeRecord(g, tokens1, ret) ==
    LET tb == buckets[gPc[g].b]
    IN  [b |-> gPc[g].b, tokens0 |-> gPc[g].tokens0, lastRefill0 |-> gPc[g].lastRefill0,
         now |-> gPc[g].now, newTokens |-> gPc[g].newTokens,
         rate |-> tb.refillRate, capacity |-> tb.capacity,
         tokens1 |-> tokens1, lastRefill1 |-> tb.lastRefill, ret |-> ret]

\* TakeConsume that takes the lastRefill time forward on a denied call too.
TakeConsumeMutAlwaysAdvance(g) ==
    /\ gPc[g].at = "consume"
    /\ LET b == gPc[g].b
           ok == buckets[b].tokens > 0
           tokens1 == IF ok THEN buckets[b].tokens - 1 ELSE buckets[b].tokens
       IN  /\ buckets' = [buckets EXCEPT ![b].tokens = tokens1, ![b].lastRefill = gPc[g].now]
           /\ gPc' = [gPc EXCEPT ![g].at = "taken", ![g].ret = ok]
           /\ results' = [results EXCEPT ![b] = Append(@, ok)]
           /\ lastTake' = [TakeRecord(g, tokens1, ok) EXCEPT !.lastRefill1 = gPc[g].now]
    /\ bucketMu' = [bucketMu EXCEPT ![gPc[g].b] = ""]
    /\ UNCHANGED <<regVars, saVars, hVars, cacheVars, extVars, now, limiters, limiterMu,
                   tokensPerSec, takes, born, lastOp>>

\* api.go 928-933, 912: if tb.tokens > 0 { tb.tokens--; return true };
\* return false; the deferred tb.mu.Unlock().
TakeConsume(g) ==
    /\ gPc[g].at = "consume"
    /\ LET b == gPc[g].b
           ok == buckets[b].tokens > 0
           tokens1 == IF ok THEN buckets[b].tokens - 1 ELSE buckets[b].tokens
       IN  /\ buckets' = [buckets EXCEPT ![b].tokens = tokens1]
           /\ gPc' = [gPc EXCEPT ![g].at = "taken", ![g].ret = ok]
           /\ results' = [results EXCEPT ![b] = Append(@, ok)]
           /\ lastTake' = TakeRecord(g, tokens1, ok)
    /\ bucketMu' = [bucketMu EXCEPT ![gPc[g].b] = ""]
    /\ UNCHANGED <<regVars, saVars, hVars, cacheVars, extVars, now, limiters, limiterMu,
                   tokensPerSec, takes, born, lastOp>>

\* take() that adds the new tokens without advancing lastRefill.
takeMutKeepLastRefill(tb, t) ==
    LET newTokens == ((t - tb.lastRefill) * tb.refillRate) \div TicksPerSec
        sum == tb.tokens + newTokens
        refilled == IF newTokens > 0
                       THEN [tb EXCEPT !.tokens = IF sum > tb.capacity
                                                     THEN tb.capacity ELSE sum]
                       ELSE tb
    IN  IF refilled.tokens > 0
           THEN [tb |-> [refilled EXCEPT !.tokens = @ - 1], ret |-> TRUE]
           ELSE [tb |-> refilled, ret |-> FALSE]

\* api.go 910-934: take() from its Lock to its Unlock, at clock reading t, on a
\* bucket with fields tb: the fields it leaves and the value it returns. (No
\* other access to the fields can fall in between: they are read and written
\* in take() only, under tb.mu.)
take(tb, t) ==
    LET newTokens == ((t - tb.lastRefill) * tb.refillRate) \div TicksPerSec
        sum == tb.tokens + newTokens
        refilled == IF newTokens > 0
                       THEN [tb EXCEPT !.tokens = IF sum > tb.capacity
                                                     THEN tb.capacity ELSE sum,
                                       !.lastRefill = t]
                       ELSE tb
    IN  IF refilled.tokens > 0
           THEN [tb |-> [refilled EXCEPT !.tokens = @ - 1], ret |-> TRUE]
           ELSE [tb |-> refilled, ret |-> FALSE]

\* The caller of take() has its result.
TakeReturn(g) ==
    /\ gPc[g].at = "taken"
    /\ gPc' = [gPc EXCEPT ![g] = GIdle]
    /\ UNCHANGED <<regVars, saVars, hVars, cacheVars, extVars, now, buckets, bucketMu, limiters,
                   limiterMu, tokensPerSec, takes, born, results, lastTake, lastOp>>

\* ----------------------------------------------------------- perIPLimiter
\* The tokenBucket objects that are still referenced: by the table lims or by
\* a goroutine of pcs; the others are garbage.
Live(lims, pcs) ==
    {lims[ip] : ip \in DOMAIN lims} \cup ({pcs[g].b : g \in Goroutines} \ {0})

Restrict(f, S) == [x \in (DOMAIN f) \cap S |-> f[x]]

\* The k-th smallest element of S.
NthSmallest(S, k) == CHOOSE x \in S : Cardinality({y \in S : y <= x}) = k

\* A request calls p.allow(ip).
CallAllow(g, ip) ==
    /\ gPc[g].at = "idle"
    /\ gPc' = [gPc EXCEPT ![g] = [GIdle EXCEPT !.at = "allowLock", !.ip = ip]]
    /\ takes' = takes + 1
    /\ UNCHANGED <<regVars, saVars, hVars, cacheVars, extVars, now, buckets, bucketMu, limiters,
                   limiterMu, tokensPerSec, born, results, lastTake, lastOp>>

\* api.go 979: p.mu.Lock().
AllowLock(g) ==
    /\ gPc[g].at = "allowLock"
    /\ limiterMu = ""
    /\ limiterMu' = g
    /\ gPc' = [gPc EXCEPT ![g].at = "allowLookup"]
    /\ UNCHANGED <<regVars, saVars, hVars, cacheVars, extVars, now, buckets, bucketMu, limiters,
                   tokensPerSec, takes, born, results, lastTake, lastOp>>

\* AllowLookup that hands every identity the bucket of the table's first entry.
AllowLookupMutShared(g) ==
    /\ gPc[g].at = "allowLookup"
    /\ LET ip == gPc[g].ip
           a == NthSmallest(Addrs \ DOMAIN buckets, 1)
       IN  IF DOMAIN limiters # {}
              THEN /\ gPc' = [gPc EXCEPT ![g].at = "lock",
                                         ![g].b = limiters[NthSmallest(DOMAIN limiters, 1)]]
                   /\ limiters' = MapSet(limiters, ip,
                                         limiters[NthSmallest(DOMAIN limiters, 1)])
                   /\ UNCHANGED <<buckets, bucketMu, born, results>>
              ELSE /\ buckets' = MapSet(buckets, a, newTokenBucket(tokensPerSec))
                   /\ bucketMu' = MapSet(bucketMu, a, "")
                   /\ born' = MapSet(born, a, now)
                   /\ results' = MapSet(results, a, <<>>)
                   /\ limiters' = MapSet(limiters, ip, a)
                   /\ gPc' = [gPc EXCEPT ![g].at = "lock", ![g].b = a]
    /\ limiterMu' = ""
    /\ UNCHANGED <<regVars, saVars, hVars, cacheVars, extVars, now, tokensPerSec, takes,
                   lastTake, lastOp>>

\* api.go 982-987: limiter, exists := p.limiters[ip]; if !exists {
\* limiter = newTokenBucket(p.tokensPerSec); p.limiters[ip] = limiter };
\* p.mu.Unlock().
AllowLookup(g) ==
    /\ gPc[g].at = "allowLookup"
    /\ LET ip == gPc[g].ip
           a == NthSmallest(Addrs \ DOMAIN buckets, 1)
       IN  IF ip \in DOMAIN limiters
              THEN /\ gPc' = [gPc EXCEPT ![g].at = "lock", ![g].b = limiters[ip]]
                   /\ UNCHANGED <<buckets, bucketMu, limiters, born, results>>
              ELSE /\ buckets' = MapSet(buckets, a, newTokenBucket(tokensPerSec))
                   /\ bucketMu' = MapSet(bucketMu, a, "")
                   /\ born' = MapSet(born, a, now)
                   /\ results' = MapSet(results, a, <<>>)
                   /\ limiters' = MapSet(limiters, ip, a)
                   /\ gPc' = [gPc EXCEPT ![g].at = "lock", ![g].b = a]
    /\ limiterMu' = ""
    /\ UNCHANGED <<regVars, saVars, hVars, cacheVars, extVars, now, tokensPerSec, takes,
                   lastTake, lastOp>>

\* api.go 990: return limiter.take(), on the bucket the lookup returned; the
\* request lets go of the bucket.
AllowTakeBody(g) ==
    /\ gPc[g].at = "lock"
    /\ bucketMu[gPc[g].b] = ""
    /\ gPc' = [gPc EXCEPT ![g] = GIdle]
    /\ LET b == gPc[g].b
           r == take(buckets[b], now)
           live == Live(limiters, gPc')
       IN  /\ buckets' = Restrict([buckets EXCEPT ![b] = r.tb], live)
           /\ results' = Restrict([results EXCEPT ![b] = Append(@, r.ret)], live)
           /\ bucketMu' = Restrict(bucketMu, live)
           /\ born' = Restrict(born, live)
    /\ UNCHANGED <<now, limiters, limiterMu, tokensPerSec, takes, lastTake, lastOp>>

AllowTake(g) ==
    /\ AllowTakeBody(g)
    /\ UNCHANGED <<regVars, saVars, hVars, cacheVars, extVars>>

\* The table lims and the objects it points to, once the objects nothing
\* references any more are dropped and fresh tokenBuckets of rate r stand at
\* the addresses of fresh.
Replace(lims, fresh, r) ==
    LET live == Live(lims, gPc)
    IN  /\ limiters' = lims
        /\ buckets' = [a \in live |-> IF a \in fresh THEN newTokenBucket(r) ELSE buckets[a]]
        /\ bucketMu' = [a \in live |-> IF a \in fresh THEN "" ELSE bucketMu[a]]
        /\ born' = [a \in live |-> IF a \in fresh THEN now ELSE born[a]]
        /\ results' = [a \in live |-> IF a \in fresh THEN <<>> ELSE results[a]]

\* updateLimit that changes the setting and leaves the buckets as they are.
updateLimitMutKeepBuckets(r) ==
    /\ limiterMu = ""
    /\ r # tokensPerSec
    /\ tokensPerSec' = r
    /\ lastOp' = "update"
    /\ UNCHANGED <<regVars, saVars, hVars, cacheVars, extVars, now, buckets, bucketMu, limiters,
                   limiterMu, gPc, takes, born, results, lastTake>>

\* api.go 964-975: updateLimit, called by checkRateLimit (api.go 1027-1031)
\* when the configured rate differs from the limiter's: under p.mu, the
\* setting is changed and every entry gets a new tokenBucket.
updateLimitBody(r) ==
    /\ limiterMu = ""
    /\ tokensPerSec' = r
    /\ LET held == {gPc[g].b : g \in Goroutines} \ {0}
           rank(ip) == Cardinality({x \in DOMAIN limiters : x <= ip})
           lims == [ip \in DOMAIN limiters |-> NthSmallest(Addrs \ held, rank(ip))]
       IN  Replace(lims, {lims[ip] : ip \in DOMAIN lims}, r)
    /\ lastOp' = "update"
    /\ UNCHANGED <<now, limiterMu, gPc, takes, lastTake>>

updateLimit(r) ==
    /\ r # tokensPerSec
    /\ updateLimitBody(r)
    /\ UNCHANGED <<regVars, saVars, hVars, cacheVars, extVars>>

\* cleanupRoutine that clears the table at the ceiling already.
cleanupRoutineMutAtCeiling ==
    /\ limiterMu = ""
    /\ IF Cardinality(DOMAIN limiters) >= CleanupCeiling
          THEN Replace(EmptyMap, {}, 0)
          ELSE UNCHANGED <<buckets, bucketMu, limiters, born, results>>
    /\ lastOp' = "cleanup"
    /\ UNCHANGED <<regVars, saVars, hVars, cacheVars, extVars, now, limiterMu, tokensPerSec,
                   gPc, takes, lastTake>>

\* api.go 998-1010: one tick of cleanupRoutine: under p.mu,
\* if len(p.limiters) > 1000 { p.limiters = make(map[string]*tokenBucket) }.
cleanupRoutine ==
    /\ limiterMu = ""
    /\ IF Cardinality(DOMAIN limiters) > CleanupCeiling
          THEN Replace(EmptyMap, {}, 0)
          ELSE UNCHANGED <<buckets, bucketMu, limiters, born, results>>
    /\ lastOp' = "cleanup"
    /\ UNCHANGED <<regVars, saVars, hVars, cacheVars, extVars, now, limiterMu, tokensPerSec,
                   gPc, takes, lastTake>>

\* ------------------------------------------------- StartDeploymentInformer
\* The values StartDeploymentInformer returns.
SiNone == "none"
SiNil == "nil"
\* fmt.Errorf("timed out waiting for deployment informer cache to sync")
SiTimedOut == "timed out waiting for deployment informer cache to sync"

MsgDisabled == "Deployment informer is disabled via configuration"
MsgStarting == "Starting deployment informer..."
MsgSynced == "Deployment informer cache synced. Watching for events..."

\* InformerOptions, reduced to the fields the control flow reads.
InformerOptions == [DisableInformer : BOOLEAN, Timeout : 1..MaxSyncTimeout]

InitSync(opts) ==
    /\ siPc = "idle"
    /\ siRet = SiNone
    /\ siOpts = opts
    /\ hasSynced = FALSE
    /\ siElapsed = 0
    /\ siPolls = 0
    /\ siLog = <<>>
    /\ siWaits = 0


\* config.go 299: timeoutCtx is done when its timer fired or when its
\* parent ctx is done.
TimeoutCtxDone == siElapsed >= siOpts.Timeout \/ ctxDone

\* config.go 186-302: the disabled check; otherwise the handlers are
\* registered, the factory is started, timeoutCtx is made and
\* cache.WaitForCacheSync is called.
SiBegin ==
    /\ siPc = "idle"
    /\ IF siOpts.DisableInformer
          THEN /\ siLog' = Append(siLog, MsgDisabled)
               /\ siPc' = "returned"
               /\ siRet' = SiNil
               /\ UNCHANGED siWaits
          ELSE /\ siLog' = Append(siLog, MsgStarting)
               /\ siPc' = "waiting"
               /\ siWaits' = siWaits + 1
               /\ UNCHANGED siRet
    /\ UNCHANGED <<lateVars, regVars, saVars, hVars, cacheVars, rlVars, httpVars, reqVars, mainVars, siOpts, hasSynced,
                   siElapsed, siPolls>>

\* The timer of context.WithTimeout (config.go 299) runs.
SiTick ==
    /\ siPc = "waiting"
    /\ siElapsed < siOpts.Timeout
    /\ siElapsed' = siElapsed + 1
    /\ UNCHANGED <<lateVars, regVars, saVars, hVars, cacheVars, rlVars, httpVars, reqVars, mainVars, siPc, siRet, siOpts,
                   hasSynced, siPolls, siLog, siWaits>>

\* The informer started by factory.Start(ctx.Done()) (config.go 296) has
\* stored the initial list: HasSynced turns true. It runs until ctx is done.
InformerSyncs ==
    /\ siPc \in {"waiting", "watching"}
    /\ ~hasSynced
    /\ ~ctxDone
    /\ hasSynced' = TRUE
    /\ UNCHANGED <<lateVars, regVars, saVars, hVars, cacheVars, rlVars, httpVars, reqVars, mainVars, siPc, siRet, siOpts,
                   siElapsed, siPolls, siLog, siWaits>>

\* config.go 302: inside WaitForCacheSync, a poll of informer.HasSynced that
\* finds it false while timeoutCtx is not done.
WaitPoll ==
    /\ siPc = "waiting"
    /\ ~hasSynced
    /\ ~TimeoutCtxDone
    /\ siPolls < MaxPolls
    /\ siPolls' = siPolls + 1
    /\ UNCHANGED <<lateVars, regVars, saVars, hVars, cacheVars, rlVars, httpVars, reqVars, mainVars, siPc, siRet, siOpts,
                   hasSynced, siElapsed, siLog, siWaits>>

\* config.go 302, 306: WaitForCacheSync returns true (a poll found HasSynced
\* true); the function logs and goes on to <-ctx.Done().
WaitReturnsTrue ==
    /\ siPc = "waiting"
    /\ hasSynced
    /\ siLog' = Append(siLog, MsgSynced)
    /\ siPc' = "watching"
    /\ UNCHANGED <<lateVars, regVars, saVars, hVars, cacheVars, rlVars, httpVars, reqVars, mainVars, siRet, siOpts, hasSynced,
                   siElapsed, siPolls, siWaits>>

\* WaitReturnsFalse with a retry: the wait is begun again with a new timeout.
WaitReturnsFalseMutRetry ==
    /\ siPc = "waiting"
    /\ TimeoutCtxDone
    /\ siWaits < 2
    /\ siElapsed' = 0
    /\ siWaits' = siWaits + 1
    /\ UNCHANGED <<lateVars, regVars, saVars, hVars, cacheVars, rlVars, httpVars, reqVars, mainVars, siPc, siRet, siOpts,
                   hasSynced, siPolls, siLog>>

\* config.go 302-304: WaitForCacheSync returns false (timeoutCtx.Done() is
\* closed); return the error.
WaitReturnsFalse ==
    /\ siPc = "waiting"
    /\ TimeoutCtxDone
    /\ siPc' = "returned"
    /\ siRet' = SiTimedOut
    /\ UNCHANGED <<lateVars, regVars, saVars, hVars, cacheVars, rlVars, httpVars, reqVars, mainVars, siOpts, hasSynced,
                   siElapsed, siPolls, siLog, siWaits>>

\* config.go 307-308: <-ctx.Done(); return nil.
WatchReturns ==
    /\ siPc = "watching"
    /\ ctxDone
    /\ siPc' = "returned"
    /\ siRet' = SiNil
    /\ UNCHANGED <<lateVars, regVars, saVars, hVars, cacheVars, rlVars, httpVars, reqVars, mainVars, siOpts, hasSynced,
                   siElapsed, siPolls, siLog, siWaits>>

\* ----------------------------------------------------- handleClusters
\* The response codes of fasthttp the handler sets.
StatusOK == 200
StatusCreated == 201
StatusBadRequest == 400
StatusMethodNotAllowed == 405
StatusInternalServerError == 500

\* The request bodies: not JSON, or a JSON ClusterConfig (whose cluster_id
\* may be absent, written 0).
Bodies == {"badJSON", "json"}
Methods == {"GET", "POST", "DELETE", "PUT"}

NoRequest == [at |-> "idle", method |-> "", body |-> "", id |-> 0, name |-> "",
              status |-> 0, count |-> 0, clusters |-> EmptyMap,
              reg0 |-> [managers |-> EmptyMap, configs |-> EmptyMap]]

InitHttp ==
    /\ http = [h \in Handlers |-> NoRequest]
    /\ requests = 0

\* ctx.SetStatusCode(code): the handler returns.
Respond(h, req, code) == http' = [http EXCEPT ![h] = [req EXCEPT !.at = "done", !.status = code]]

\* api.go 560-614, 628-636, 645-647: the switch on the method and the
\* validation of the request, up to the first call of the manager.
handleClusters(h, method, body, id, name) ==
    /\ ~fatal
    /\ http[h].at \in {"idle", "done"}
    /\ hPc[h].at = "idle"
    /\ requests' = requests + 1
    /\ LET \* api.go 600-601, 630: the ClusterID of the body (none when the body
           \* does not parse), or the id of the query.
           clusterID == IF method = "POST" /\ body = "badJSON" THEN 0 ELSE id
           req == [NoRequest EXCEPT !.method = method, !.body = body,
                                    !.id = clusterID, !.name = name,
                                    !.reg0 = [managers |-> managers, configs |-> configs]]
       IN  CASE method = "GET" -> http' = [http EXCEPT ![h] = [req EXCEPT !.at = "callCount"]]
             [] method = "POST" ->
                   IF body = "badJSON" \/ clusterID = 0
                      THEN Respond(h, req, StatusBadRequest)
                      ELSE http' = [http EXCEPT ![h] = [req EXCEPT !.at = "callAdd"]]
             [] method = "DELETE" ->
                   IF id = 0
                      THEN Respond(h, req, StatusBadRequest)
                      ELSE http' = [http EXCEPT ![h] = [req EXCEPT !.at = "callRemove"]]
             [] OTHER -> Respond(h, req, StatusMethodNotAllowed)
    /\ UNCHANGED <<lateVars, regVars, saVars, hVars, cacheVars, rlVars, syncVars, reqVars, mainVars>>

\* The call of the manager's method the handler has reached.
handleClustersCall(h) ==
    /\ http[h].at \in {"callCount", "callList", "callAdd", "callRemove"}
    /\ CASE http[h].at = "callCount" -> CallGetClusterCount(h)              \* api.go 568
         [] http[h].at = "callList" -> CallGetClusters(h)                   \* api.go 571
         [] http[h].at = "callAdd" -> CallAddCluster(h, http[h].id, http[h].name)  \* api.go 617
         [] http[h].at = "callRemove" -> CallRemoveCluster(h, http[h].id)   \* api.go 639

\* The manager's method returned to the handler.
Returned(h, at) ==
    /\ ~fatal
    /\ http[h].at = at
    /\ hPc[h].at = "ret"
    /\ hPc' = [hPc EXCEPT ![h] = Idle]
    /\ UNCHANGED <<lateVars, regVars, saVars, cacheVars, rlVars, syncVars, reqVars, mainVars, requests, hRet, hSnap,
                   nextHandle, calls, okAdds, okRems, fatal>>

\* api.go 568: clusterCount := s.multiClusterManager.GetClusterCount().
handleClustersGetCount(h) ==
    /\ Returned(h, "callCount")
    /\ http' = [http EXCEPT ![h].count = hRet[h].val, ![h].at = "callList"]

\* api.go 571-596: clustersList := GetClusters(); the map keyed by ClusterID;
\* the response with Count and Clusters; 200.
handleClustersGetRespond(h) ==
    /\ Returned(h, "callList")
    /\ LET clustersList == hRet[h].val
           clustersMap == [id \in {cfg.ClusterID : cfg \in clustersList} |->
                              CHOOSE cfg \in clustersList : cfg.ClusterID = id]
       IN  Respond(h, [http[h] EXCEPT !.clusters = clustersMap], StatusOK)

\* handleClustersPostRespond answering 201 whatever AddCluster returned.
handleClustersPostRespondMutAlwaysCreated(h) ==
    /\ Returned(h, "callAdd")
    /\ Respond(h, http[h], StatusCreated)

\* api.go 617-626: AddCluster returned: 500 on an error, 201 otherwise.
handleClustersPostRespond(h) ==
    /\ Returned(h, "callAdd")
    /\ Respond(h, http[h], IF hRet[h].err # "nil" THEN StatusInternalServerError
                                                ELSE StatusCreated)

\* api.go 639-643: s.multiClusterManager.RemoveCluster(clusterID), its result
\* dropped; 200.
handleClustersDeleteRespond(h) ==
    /\ Returned(h, "callRemove")
    /\ Respond(h, http[h], StatusOK)

\* ------------------------------------------------------- requestHandler
StatusTooManyRequests == 429
StatusNotFound == 404

\* api.go 66: the body of a rate-limit rejection.
RetryHint == "{\"error\": \"Rate limit exceeded\", \"retry_after\": \"1s\"}"

\* The values of RateLimitRequestsPerSecond: 0 (also standing for a nil
\* s.config) and the positive rates.
RateLimitCfgs == {0} \cup LimiterRates

\* The request paths and the endpoint handler the switch of api.go 83-127
\* calls for each.
Paths == {"/clusters", "/deployments", "/nope"}
HandlerOf(path) ==
    CASE path = "/clusters" -> "handleClusters"
      [] path = "/deployments" -> "handleDeployments"
      [] OTHER -> "none"

NoRq == [at |-> "idle", ip |-> 0, path |-> "", requestID |-> FALSE, status |-> 0,
         body |-> "", admitted |-> "notAsked", handler |-> "none", sawNil |-> FALSE]

InitReq(cfg) ==
    /\ rq = [g \in Goroutines |-> NoRq]
    /\ rateLimitCfg = cfg
    /\ ipLimiter = FALSE
    /\ handled = 0

\* api.go 50-63: the request ID header is set; the limiter is consulted only
\* if s.config != nil && RateLimitRequestsPerSecond > 0.
requestHandler(g, ip, path) ==
    /\ rq[g].at \in {"idle", "done"}
    /\ gPc[g].at = "idle"
    /\ handled' = handled + 1
    /\ rq' = [rq EXCEPT ![g] = [NoRq EXCEPT !.ip = ip, !.path = path,
                                           !.requestID = TRUE,
                                           !.at = IF rateLimitCfg > 0
                                                     THEN "checkRateLimit"
                                                     ELSE "route"]]
    /\ UNCHANGED <<lateVars, regVars, saVars, hVars, cacheVars, rlVars, syncVars, httpVars,
                   mainVars, rateLimitCfg, ipLimiter>>

\* api.go 1019: the default rate of a limiter made without a configured one.
DefaultRateLimit == 10

\* checkRateLimitLock without the mutex: the goroutine goes on at once.
checkRateLimitLockMutNoLock(g) ==
    /\ rq[g].at = "checkRateLimit"
    /\ rq' = [rq EXCEPT ![g].at = "rlRead"]
    /\ UNCHANGED <<lateVars, regVars, saVars, hVars, cacheVars, rlVars, syncVars, httpVars,
                   mainVars, rateLimitCfg, ipLimiter, handled>>

\* api.go 1016: s.requestLimiterMux.Lock().
checkRateLimitLock(g) ==
    /\ rq[g].at = "checkRateLimit"
    /\ requestLimiterMux = ""
    /\ requestLimiterMux' = g
    /\ rq' = [rq EXCEPT ![g].at = "rlRead"]
    /\ UNCHANGED <<tailVars, depVars, limitersMade, regVars, saVars, hVars, cacheVars, rlVars,
                   syncVars, httpVars, mainVars, rateLimitCfg, ipLimiter, handled>>

\* api.go 1017: if s.ipLimiter == nil.
checkRateLimitRead(g) ==
    /\ rq[g].at = "rlRead"
    /\ rq' = [rq EXCEPT ![g].at = "rlAct", ![g].sawNil = ~ipLimiter]
    /\ UNCHANGED <<lateVars, regVars, saVars, hVars, cacheVars, rlVars, syncVars, httpVars,
                   mainVars, rateLimitCfg, ipLimiter, handled>>

\* api.go 1018-1036: the limiter is made if it was nil (with the configured
\* rate, or 10 if there is none), else updated when the configured rate
\* differs from its own; s.requestLimiterMux.Unlock().
checkRateLimit(g) ==
    /\ rq[g].at = "rlAct"
    /\ IF rq[g].sawNil
          THEN /\ ipLimiter' = TRUE
               /\ limitersMade' = limitersMade + 1
               /\ tokensPerSec' = IF rateLimitCfg > 0 THEN rateLimitCfg
                                                      ELSE DefaultRateLimit
               /\ limiters' = EmptyMap
               /\ UNCHANGED <<now, buckets, bucketMu, limiterMu, gPc, takes, born,
                              results, lastTake, lastOp>>
          ELSE /\ UNCHANGED <<ipLimiter, limitersMade>>
               /\ IF rateLimitCfg > 0 /\ tokensPerSec # rateLimitCfg
                     THEN updateLimitBody(rateLimitCfg)
                     ELSE UNCHANGED rlVars
    /\ requestLimiterMux' = ""
    /\ rq' = [rq EXCEPT ![g].at = "allow"]
    /\ UNCHANGED <<tailVars, depVars, regVars, saVars, hVars, cacheVars, syncVars, httpVars, mainVars,
                   rateLimitCfg, handled>>

\* api.go 1038: the call s.ipLimiter.allow(clientIP).
checkRateLimitCallAllow(g) ==
    /\ rq[g].at = "allow"
    /\ CallAllow(g, rq[g].ip)

\* api.go 1038, 64-70: allow returns what take() returned; a denied request
\* is answered 429 with the retry hint and requestHandler returns.
checkRateLimitReturns(g) ==
    /\ rq[g].at = "allow"
    /\ gPc[g].at = "lock"
    /\ LET admitted == take(buckets[gPc[g].b], now).ret
       IN  rq' = [rq EXCEPT ![g] =
                    IF admitted
                       THEN [@ EXCEPT !.at = "route", !.admitted = "yes"]
                       ELSE [@ EXCEPT !.at = "done", !.admitted = "no",
                                      !.status = StatusTooManyRequests,
                                      !.body = RetryHint]]
    /\ AllowTakeBody(g)
    /\ UNCHANGED <<lateVars, regVars, saVars, hVars, cacheVars, syncVars, httpVars, mainVars,
                   rateLimitCfg, ipLimiter, handled>>

\* api.go 72-132: the security headers, then the switch on the path: the
\* endpoint handler is called, or 404 is answered.
route(g) ==
    /\ rq[g].at = "route"
    /\ rq' = [rq EXCEPT ![g].at = "done",
                        ![g].handler = HandlerOf(rq[g].path),
                        ![g].status = IF HandlerOf(rq[g].path) = "none"
                                         THEN StatusNotFound ELSE StatusOK]
    /\ UNCHANGED <<lateVars, regVars, saVars, hVars, cacheVars, rlVars, syncVars, httpVars,
                   mainVars, rateLimitCfg, ipLimiter, handled>>

\* ------------------------------------ handlers and an unset replica count
\* Spec.Replicas is a *int32: the value that stands for the nil pointer of a
\* Deployment whose desired replica count is unset.
NilReplicas == 0 - 1

\* The Deployments a handler is handed here: "default/web" in every resource
\* version and state, and with Spec.Replicas unset.
NilableDeployments ==
    {Deployment("default", "web", rv, sp) :
        rv \in 1..MaxRV, sp \in DeploySpecs \cup {<<NilReplicas, <<"v1">>, FALSE>>}}

InitNil ==
    /\ derefPanic = ""
    /\ ctrlLog = <<>>

\* config.go 231-245 with 312-318: AddFunc reaches *deployment.Spec.Replicas,
\* an argument of the debug event that is evaluated whatever the log level.
AddFuncDerefsNil(obj) ==
    /\ obj.type = "Deployment"
    /\ obj.obj.Replicas = NilReplicas

\* config.go 246-266 with 326-336: UpdateFunc reaches
\* *oldDeployment.Spec.Replicas != *newDeployment.Spec.Replicas unless it
\* returned on a failed type assertion or on equal resource versions.
UpdateFuncDerefsNil(oldObj, newObj) ==
    /\ oldObj.type = "Deployment"
    /\ newObj.type = "Deployment"
    /\ oldObj.obj.ResourceVersion # newObj.obj.ResourceVersion
    /\ (oldObj.obj.Replicas = NilReplicas \/ newObj.obj.Replicas = NilReplicas)

\* InformerUpsert for a Deployment whose replica count may be unset: the
\* object is filed in the indexer, and the handler either completes or
\* panics at the dereference (processDeploymentUpdate has by then written
\* its debug entry, config.go 328-333; processDeploymentAdd has written
\* nothing).
InformerUpsertNilable(d) ==
    /\ derefPanic = ""
    /\ LET cached == StoreKey(d) \in DOMAIN cache
           old == IF cached THEN AsDeployment(cache[StoreKey(d)]) ELSE 0
           panics == IF cached THEN UpdateFuncDerefsNil(old, AsDeployment(d))
                               ELSE AddFuncDerefsNil(AsDeployment(d))
       IN  IF ~panics
              THEN InformerUpsert(d)
              ELSE /\ Deliverable(d)
                   /\ cache' = MapSet(cache, StoreKey(d), d)
                   /\ evLog' = IF cached
                                  THEN <<LogEntry("debug", "Processing update event", d)>>
                                  ELSE <<>>
                   /\ derefPanic' = IF cached THEN "processDeploymentUpdate"
                                              ELSE "processDeploymentAdd"
                   /\ lastNote' = [lastNote EXCEPT ![<<d.Namespace, d.Name>>] =
                                      [kind |-> IF cached THEN "update" ELSE "add",
                                       obj |-> d]]
                   /\ lastEv' = Event(IF cached THEN "update" ELSE "add", old,
                                      AsDeployment(d))
                   /\ UNCHANGED <<regVars, saVars, hVars, rlVars, syncVars, httpVars,
                                  reqVars, mainVars, depVars, muxVars, sigVars,
                                  mockVars, enableEventLogging, ctrlLog>>

\* An entry of the controller's eventLogger (runtime.go 488-497): the event
\* type, the message, and the object's namespace and name.
CtrlEntry(eventType, msg, d) ==
    [event_type |-> eventType, msg |-> msg, name |-> d.Name,
     namespace |-> d.Namespace]

\* What a call of the eventLogger leaves: the entry it logged, or the panic.
ControllerLogs(entry, panicsIn) ==
    /\ derefPanic = ""
    /\ IF panicsIn = ""
          THEN /\ ctrlLog' = <<entry>>
               /\ UNCHANGED derefPanic
          ELSE /\ ctrlLog' = <<>>
               /\ derefPanic' = panicsIn
    /\ UNCHANGED <<regVars, saVars, hVars, cacheVars, rlVars, syncVars, httpVars,
                   reqVars, mainVars, depVars, muxVars, sigVars, mockVars>>

\* runtime.go 486-500: the eventLogger's CreateFunc.
eventLoggerCreateFunc(d) ==
    ControllerLogs(CtrlEntry("CREATE", "Deployment created", d),
                   IF d.Replicas = NilReplicas THEN "CreateFunc" ELSE "")

\* runtime.go 501-531: the eventLogger's UpdateFunc; hasOld is false when
\* e.ObjectOld is not a Deployment (oldDeployment is then nil).
eventLoggerUpdateFunc(hasOld, old, d) ==
    IF hasOld /\ (old.Replicas = NilReplicas \/ d.Replicas = NilReplicas)
       THEN ControllerLogs(0, "UpdateFunc")
       ELSE IF hasOld /\ old.Replicas # d.Replicas
               THEN ControllerLogs(CtrlEntry("UPDATE", "Deployment replicas changed", d), "")
               ELSE ControllerLogs(CtrlEntry("UPDATE", "Deployment updated", d),
                                   IF d.Replicas = NilReplicas THEN "UpdateFunc" ELSE "")

\* runtime.go 532-545: the eventLogger's DeleteFunc reads no replica count.
eventLoggerDeleteFunc(d) ==
    ControllerLogs(CtrlEntry("DELETE", "Deployment deleted", d), "")

\* ------------------------------------------- StartAPIServer: the signal channel
InitSig ==
    /\ sigChanClosed = FALSE
    /\ sigPanic = FALSE

\* ------------------------------------------------------------ MockManager
\* The goroutine that calls Start and those that call IsStarted or IsStopped.
Starter == "start"
Observers == {"o1", "o2"}
MockGoroutines == {Starter} \cup Observers

MockIdle == [at |-> "idle", fn |-> "", ret |-> "none"]

\* part_007 23-26: NewMockManager; the context of Start is not cancelled yet.
InitMock ==
    /\ mock = [mu |-> "", Started |-> FALSE, Stopped |-> FALSE, ctxDone |-> FALSE]
    /\ mockPc = [g \in MockGoroutines |-> MockIdle]

MockKeeps == UNCHANGED <<regVars, saVars, hVars, cacheVars, rlVars, syncVars, httpVars,
                         reqVars, mainVars, depVars, muxVars, nilVars, sigVars>>

\* A goroutine calls Start (the starter, once), IsStarted or IsStopped.
MockCall(g, fn) ==
    /\ mockPc[g].at = "idle"
    /\ (fn = "Start") = (g = Starter)
    /\ g = Starter => mockPc[g].ret = "none"
    /\ mockPc' = [mockPc EXCEPT ![g] = [at |-> "lock", fn |-> fn, ret |-> "none"]]
    /\ UNCHANGED mock
    /\ MockKeeps

\* part_007 29, 35, 44, 51: m.mu.Lock(); sync.Mutex is not reentrant, the call
\* blocks while any goroutine, the caller included, holds the mutex.
MockLock(g) ==
    /\ mockPc[g].at \in {"lock", "lock2"}
    /\ mock.mu = ""
    /\ mock' = [mock EXCEPT !.mu = g]
    /\ mockPc' = [mockPc EXCEPT ![g].at = IF @ = "lock" THEN "body" ELSE "body2"]
    /\ MockKeeps

\* What a call does with the mutex held. Start: m.Started = true and on to
\* <-ctx.Done() with the mutex still held, its Unlock being deferred (part_007
\* 30-33); after the second Lock, m.Stopped = true and m.mu.Unlock() (36-37).
\* IsStarted and IsStopped read their field (46, 53).
MockBody(g) ==
    /\ mockPc[g].at \in {"body", "body2"}
    /\ mock.mu = g
    /\ CASE mockPc[g].fn = "Start" /\ mockPc[g].at = "body" ->
               /\ mock' = [mock EXCEPT !.Started = TRUE]
               /\ mockPc' = [mockPc EXCEPT ![g].at = "wait"]
         [] mockPc[g].fn = "Start" /\ mockPc[g].at = "body2" ->
               /\ mock' = [mock EXCEPT !.Stopped = TRUE, !.mu = ""]
               /\ mockPc' = [mockPc EXCEPT ![g].at = "return", ![g].ret = "nil"]
         [] mockPc[g].fn = "IsStarted" ->
               /\ mockPc' = [mockPc EXCEPT ![g].at = "return",
                                           ![g].ret = IF mock.Started THEN "true" ELSE "false"]
               /\ UNCHANGED mock
         [] mockPc[g].fn = "IsStopped" ->
               /\ mockPc' = [mockPc EXCEPT ![g].at = "return",
                                           ![g].ret = IF mock.Stopped THEN "true" ELSE "false"]
               /\ UNCHANGED mock
    /\ MockKeeps

\* The test cancels the context it passed to Start.
MockCancel ==
    /\ ~mock.ctxDone
    /\ mock' = [mock EXCEPT !.ctxDone = TRUE]
    /\ UNCHANGED mockPc
    /\ MockKeeps

\* part_007 33: <-ctx.Done() returns.
MockCtxDone(g) ==
    /\ mockPc[g].at = "wait"
    /\ mock.ctxDone
    /\ mockPc' = [mockPc EXCEPT ![g].at = "lock2"]
    /\ UNCHANGED mock
    /\ MockKeeps

\* The return: the deferred m.mu.Unlock() runs (part_007 30, 45, 52); it
\* unlocks the mutex whoever locked it, and on a mutex that is not locked it
\* is a fatal error of the runtime.
MockReturn(g) ==
    /\ mockPc[g].at = "return"
    /\ IF mock.mu # ""
          THEN /\ mock' = [mock EXCEPT !.mu = ""]
               /\ mockPc' = [mockPc EXCEPT ![g].at = "idle"]
          ELSE /\ mockPc' = [mockPc EXCEPT ![g].at = "fatal"]
               /\ UNCHANGED mock
    /\ MockKeeps

InitTail == InitNil /\ InitSig /\ InitMock

\* ------------------------------------------------------ handleDeployments
StatusServiceUnavailable == 503
Namespaces == {"", "default", "prod"}
NoResponse == [n |-> 0, code |-> 0, namespace |-> "", items |-> {}]

\* The factory of runtime.go 67-71 (handed to StartAPIServer, api.go 719):
\* nil for an apiServer built without one; registered: its Deployments
\* informer was asked for; started: that informer is running.
InitDeployments(nil) ==
    /\ apiFactory = [nil |-> nil, startCalled |-> FALSE,
                     registered |-> FALSE, started |-> FALSE]
    /\ depResp = NoResponse

InitMux ==
    /\ requestLimiterMux = ""
    /\ limitersMade = 0

InitLate == InitDeployments(FALSE) /\ InitMux /\ InitTail

\* runtime.go 75-78: factory.Start(ctx.Done()) runs the informers that were
\* asked of the factory before the call, and no other.
FactoryStart ==
    /\ ~apiFactory.nil
    /\ ~apiFactory.startCalled
    /\ apiFactory' = [apiFactory EXCEPT !.startCalled = TRUE,
                                        !.started = apiFactory.registered]
    /\ UNCHANGED <<tailVars, muxVars, regVars, saVars, hVars, cacheVars, rlVars, syncVars, httpVars,
                   reqVars, mainVars, depResp>>

\* The indexer of the factory's Deployments informer: an informer that runs
\* holds what the watch of the cluster delivered, as the informer of
\* StartDeploymentInformer does (both list and watch through one clientset);
\* one that was never run holds nothing.
ApiIndexer == IF apiFactory.started THEN cache ELSE EmptyMap

\* config.go 419-437 on a given indexer.
ListDeploymentsIn(indexer, namespace) ==
    {indexer[k] : k \in {x \in DOMAIN indexer :
                            namespace = "" \/ indexer[x].Namespace = namespace}}

\* api.go 170-245: handleDeployments. The API server is started after
\* runtime.go 75-78 (runtime.go 99-109).
handleDeployments(namespace) ==
    /\ depResp.n < MaxDeploymentRequests
    /\ apiFactory.nil \/ apiFactory.startCalled
    /\ IF apiFactory.nil
          THEN /\ depResp' = [n |-> depResp.n + 1, code |-> StatusServiceUnavailable,
                              namespace |-> namespace, items |-> {}]
               /\ UNCHANGED apiFactory
          ELSE /\ apiFactory' = [apiFactory EXCEPT !.registered = TRUE]
               /\ depResp' = [n |-> depResp.n + 1, code |-> StatusOK,
                              namespace |-> namespace,
                              items |-> ListDeploymentsIn(ApiIndexer, namespace)]
    /\ UNCHANGED <<tailVars, muxVars, regVars, saVars, hVars, cacheVars, rlVars, syncVars, httpVars,
                   reqVars, mainVars>>

\* --------------------------------------------- StartAPIServer: the shutdown
InitMain ==
    /\ apiPc = "serving"
    /\ sigReceived = FALSE
    /\ stopLog = <<>>

InitExt ==
    /\ InitSync([DisableInformer |-> FALSE, Timeout |-> 1])
    /\ InitHttp
    /\ InitReq(0)
    /\ InitMain
    /\ InitLate

\* api.go 772-773: os.Interrupt or SIGTERM is delivered on sigChan.
Signal ==
    /\ ~sigReceived
    /\ sigReceived' = TRUE
    /\ UNCHANGED <<lateVars, regVars, saVars, hVars, cacheVars, rlVars, syncVars, httpVars,
                   reqVars, apiPc, stopLog>>

\* api.go 786-794: select { case <-sigChan: ... case <-ctx.Done(): ... }.
ShutdownSelect ==
    /\ apiPc = "serving"
    /\ sigReceived \/ ctxDone
    /\ apiPc' = "stopAll"
    /\ UNCHANGED <<lateVars, regVars, saVars, hVars, cacheVars, rlVars, syncVars, httpVars,
                   reqVars, sigReceived, stopLog>>

\* What StopAll logs (runtime.go 710-727).
StopAllMessages ==
    IF Cardinality(DOMAIN managers) = 0
       THEN <<"No cluster managers to stop">>
       ELSE <<"Shutting down all cluster managers">>
               \o [i \in 1..Cardinality(DOMAIN managers) |-> "Stopping manager for cluster"]

\* StopAll that joins the cluster tasks before it returns.
StopAllMutJoins ==
    /\ apiPc = "stopAll"
    /\ Running = {}
    /\ stopLog' = StopAllMessages
    /\ apiPc' = "shutdown"
    /\ UNCHANGED <<lateVars, regVars, saVars, hVars, cacheVars, rlVars, syncVars, httpVars,
                   reqVars, sigReceived>>

\* runtime.go 709-731 (called at api.go 795): StopAll reads len(m.managers),
\* logs, ranges over m.managers logging each cluster, and returns.
StopAll ==
    /\ apiPc = "stopAll"
    /\ stopLog' = StopAllMessages
    /\ apiPc' = "shutdown"
    /\ UNCHANGED <<lateVars, regVars, saVars, hVars, cacheVars, rlVars, syncVars, httpVars,
                   reqVars, sigReceived>>

\* api.go 798-805: fasthttpServer.Shutdown(); return.
ServerShutdown ==
    /\ apiPc = "shutdown"
    /\ apiPc' = "returned"
    /\ UNCHANGED <<lateVars, regVars, saVars, hVars, cacheVars, rlVars, syncVars, httpVars,
                   reqVars, sigReceived, stopLog>>

\* api.go 776-783: ListenAndServe returns an error on the server's goroutine
\* (the address is in use, or the listener fails later), and the goroutine
\* closes sigChan. signal.Stop is called nowhere: sigChan stays registered
\* with os/signal from api.go 773 on.
ListenAndServeFails ==
    /\ apiPc # "returned"
    /\ ~sigChanClosed
    /\ sigChanClosed' = TRUE
    /\ UNCHANGED <<regVars, saVars, hVars, cacheVars, rlVars, syncVars, httpVars,
                   reqVars, mainVars, depVars, muxVars, nilVars, mockVars, sigPanic>>

\* api.go 787: <-sigChan on the closed channel returns at once.
ShutdownSelectClosed ==
    /\ apiPc = "serving"
    /\ sigChanClosed
    /\ apiPc' = "stopAll"
    /\ UNCHANGED <<lateVars, regVars, saVars, hVars, cacheVars, rlVars, syncVars, httpVars,
                   reqVars, sigReceived, stopLog>>

\* os.Interrupt or SIGTERM arrives once sigChan is closed: os/signal sends it
\* to every registered channel (select { case c <- sig: default: }), and a
\* send on a closed channel panics.
SignalOnClosed ==
    /\ sigChanClosed
    /\ ~sigPanic
    /\ sigPanic' = TRUE
    /\ UNCHANGED <<regVars, saVars, hVars, cacheVars, rlVars, syncVars, httpVars,
                   reqVars, mainVars, depVars, muxVars, nilVars, mockVars, sigChanClosed>>

\* -------------------------------------------------- specification: StartAll
\* The registry holds any set of clusters (AddCluster before StartAll); the
\* context may already be cancelled at the call.
InitStartAll ==
    /\ \E S \in SUBSET ClusterIDs :
          /\ managers = [c \in S |-> c]
          /\ configs = [c \in S |-> ClusterConfig(c, "n1")]
    /\ ctxDone \in BOOLEAN
    /\ InitStartAllVars
    /\ InitCallers
    /\ InitCache
    /\ InitLimiterVars(0, EmptyMap)
    /\ InitExt
    /\ enableEventLogging = TRUE
    /\ nextHandle = MaxClusters + 1

NextStartAll ==
    \/ StartAllBegin
    \/ \E c \in ClusterIDs : StartAllLaunch(c)
    \/ StartAllSpawnJoiner
    \/ SelectCtxDone
    \/ SelectErrorCh
    \/ SelectDoneCh
    \/ CtxWaitDone
    \/ NilWaitDone
    \/ \E c \in ClusterIDs : TaskStartReturns(c)
    \/ \E c \in ClusterIDs : TaskCheck(c)
    \/ \E c \in ClusterIDs : TaskSend(c)
    \/ \E c \in ClusterIDs : TaskDone(c)
    \/ JoinerWait
    \/ JoinerCloseErr
    \/ Cancel

SpecStartAll == InitStartAll /\ [][NextStartAll]_vars

\* The Go scheduler runs every runnable goroutine: each step of StartAll, of
\* the joiner and of a task after its Start returned is taken. Nothing makes
\* a Start return or the context be cancelled.
FairStartAll ==
    /\ WF_vars(StartAllBegin)
    /\ \A c \in ClusterIDs : WF_vars(StartAllLaunch(c))
    /\ WF_vars(StartAllSpawnJoiner)
    /\ WF_vars(SelectCtxDone \/ SelectErrorCh \/ SelectDoneCh)
    /\ WF_vars(CtxWaitDone)
    /\ WF_vars(NilWaitDone)
    /\ \A c \in ClusterIDs : WF_vars(TaskCheck(c) \/ TaskSend(c) \/ TaskDone(c))
    /\ WF_vars(JoinerWait)
    /\ WF_vars(JoinerCloseErr)

SpecStartAllFair == SpecStartAll /\ FairStartAll

\* ------------------------------------- specification: one caller, in sequence
\* NewMultiClusterManager (runtime.go 578-584), then one goroutine calling the
\* manager's methods one after another.
SeqCaller == "h1"

InitSeq ==
    /\ managers = EmptyMap
    /\ configs = EmptyMap
    /\ ctxDone = FALSE
    /\ InitStartAllVars
    /\ InitCallers
    /\ InitCache
    /\ InitLimiterVars(0, EmptyMap)
    /\ InitExt
    /\ enableEventLogging = TRUE
    /\ nextHandle = 1

NextSeq ==
    \/ \E id \in ApiIDs : \E name \in Names :
          calls < MaxSeqCalls /\ CallAddCluster(SeqCaller, id, name)
    \/ \E id \in ApiIDs : calls < MaxSeqCalls /\ CallRemoveCluster(SeqCaller, id)
    \/ calls < MaxSeqCalls /\ CallGetClusters(SeqCaller)
    \/ calls < MaxSeqCalls /\ CallGetClusterCount(SeqCaller)
    \/ Enter(SeqCaller)
    \/ AddClusterCheck(SeqCaller)
    \/ AddClusterConstruct(SeqCaller)
    \/ AddClusterStoreManager(SeqCaller)
    \/ AddClusterStoreConfig(SeqCaller)
    \/ RemoveClusterCheck(SeqCaller)
    \/ RemoveClusterDeleteManager(SeqCaller)
    \/ RemoveClusterDeleteConfig(SeqCaller)
    \/ GetClusters(SeqCaller)
    \/ GetClusterCount(SeqCaller)
    \/ Finish(SeqCaller)

SpecSeq == InitSeq /\ [][NextSeq]_vars

\* ------------------------------------------- specification: the API server
\* StartAPIServer (api.go 652-806): the primary cluster is added, StartAll runs
\* on its own goroutine, and the HTTP requests call the manager.
InitServer ==
    /\ managers = [c \in {PrimaryID} |-> 1]
    /\ configs = [c \in {PrimaryID} |-> ClusterConfig(PrimaryID, "n1")]
    /\ ctxDone = FALSE
    /\ InitStartAllVars
    /\ InitCallers
    /\ InitCache
    /\ InitLimiterVars(0, EmptyMap)
    /\ InitExt
    /\ enableEventLogging = TRUE
    /\ nextHandle = 2

\* The registry under concurrent requests: the requests' calls, and StartAll
\* as far as it reads the registry (up to the end of its range loop).
NextRegistry ==
    \/ StartAllBegin
    \/ \E c \in ClusterIDs : StartAllLaunch(c)
    \/ StartAllSpawnJoiner
    \/ \E h \in Handlers : \E id \in ApiIDs : \E name \in Names :
          calls < MaxCalls /\ CallAddCluster(h, id, name)
    \/ \E h \in Handlers : \E id \in ApiIDs : calls < MaxCalls /\ CallRemoveCluster(h, id)
    \/ \E h \in Handlers : calls < MaxCalls /\ CallGetClusters(h)
    \/ \E h \in Handlers : calls < MaxCalls /\ CallGetClusterCount(h)
    \/ \E h \in Handlers : Enter(h)
    \/ \E h \in Handlers : FatalRace(h)
    \/ \E h \in Handlers : AddClusterCheck(h)
    \/ \E h \in Handlers : AddClusterConstruct(h)
    \/ \E h \in Handlers : AddClusterStoreManager(h)
    \/ \E h \in Handlers : AddClusterStoreConfig(h)
    \/ \E h \in Handlers : RemoveClusterCheck(h)
    \/ \E h \in Handlers : RemoveClusterDeleteManager(h)
    \/ \E h \in Handlers : RemoveClusterDeleteConfig(h)
    \/ \E h \in Handlers : GetClusters(h)
    \/ \E h \in Handlers : GetClusterCount(h)
    \/ \E h \in Handlers : Finish(h)

SpecRegistry == InitServer /\ [][NextRegistry]_vars

\* The whole server with one request at a time adding and removing clusters.
NextServer ==
    \/ StartAllBegin
    \/ \E c \in ClusterIDs : StartAllLaunch(c)
    \/ StartAllSpawnJoiner
    \/ SelectCtxDone
    \/ SelectErrorCh
    \/ SelectDoneCh
    \/ CtxWaitDone
    \/ NilWaitDone
    \/ \E c \in ClusterIDs : TaskStartReturns(c)
    \/ \E c \in ClusterIDs : TaskCheck(c)
    \/ \E c \in ClusterIDs : TaskSend(c)
    \/ \E c \in ClusterIDs : TaskDone(c)
    \/ JoinerWait
    \/ JoinerCloseErr
    \/ Cancel
    \/ \E id \in ApiIDs : \E name \in Names :
          calls < MaxCalls /\ CallAddCluster(SeqCaller, id, name)
    \/ \E id \in ApiIDs : calls < MaxCalls /\ CallRemoveCluster(SeqCaller, id)
    \/ Enter(SeqCaller)
    \/ FatalRace(SeqCaller)
    \/ AddClusterCheck(SeqCaller)
    \/ AddClusterConstruct(SeqCaller)
    \/ AddClusterStoreManager(SeqCaller)
    \/ AddClusterStoreConfig(SeqCaller)
    \/ RemoveClusterCheck(SeqCaller)
    \/ RemoveClusterDeleteManager(SeqCaller)
    \/ RemoveClusterDeleteConfig(SeqCaller)
    \/ Finish(SeqCaller)

\* The Go scheduler runs every runnable goroutine: each step of StartAll, of
\* the joiner, of a task after its Start returned, and of a request in
\* progress is taken. Nothing makes a request arrive, a Start return or the
\* context be cancelled.
FairServer ==
    /\ WF_vars(StartAllBegin)
    /\ \A c \in ClusterIDs : WF_vars(StartAllLaunch(c))
    /\ WF_vars(StartAllSpawnJoiner)
    /\ WF_vars(SelectCtxDone \/ SelectErrorCh \/ SelectDoneCh)
    /\ WF_vars(CtxWaitDone)
    /\ WF_vars(NilWaitDone)
    /\ \A c \in ClusterIDs : WF_vars(TaskCheck(c) \/ TaskSend(c) \/ TaskDone(c))
    /\ WF_vars(JoinerWait)
    /\ WF_vars(JoinerCloseErr)
    /\ WF_vars(Enter(SeqCaller) \/ AddClusterCheck(SeqCaller)
                 \/ AddClusterConstruct(SeqCaller) \/ AddClusterStoreManager(SeqCaller)
                 \/ AddClusterStoreConfig(SeqCaller) \/ RemoveClusterCheck(SeqCaller)
                 \/ RemoveClusterDeleteManager(SeqCaller)
                 \/ RemoveClusterDeleteConfig(SeqCaller) \/ Finish(SeqCaller))

SpecServerFair == InitServer /\ [][NextServer]_vars /\ FairServer

\* Every manager's Start returns once its context is cancelled (the informer
\* it runs is stopped by ctx.Done()).
FairStartReturns ==
    \A c \in ClusterIDs : WF_vars(ctxDone /\ TaskStartReturns(c))

SpecStartAllCancel == SpecStartAllFair /\ FairStartReturns

SpecServerCancel == SpecServerFair /\ FairStartReturns

\* ---------------------------------------------- specification: the informer
\* StartDeploymentInformer (config.go 185-309) once its handlers are
\* registered: the cache starts empty and the watch delivers notifications.
InitInformer ==
    /\ managers = EmptyMap
    /\ configs = EmptyMap
    /\ ctxDone = FALSE
    /\ InitStartAllVars
    /\ InitCallers
    /\ nextHandle = 1
    /\ InitCache
    /\ InitLimiterVars(0, EmptyMap)
    /\ InitExt
    /\ enableEventLogging \in BOOLEAN

NextInformer ==
    \/ \E d \in Deployments : InformerUpsert(d)
    \/ \E d \in Deployments : \E tombstone \in BOOLEAN : InformerDelete(d, tombstone)
    \/ \E kind \in {"add", "update", "delete"} : \E p \in OtherPayloads(kind) :
          HandlerGetsOther(kind, p[1], p[2])

SpecInformer == InitInformer /\ [][NextInformer]_vars

\* --------------------------------------------- specification: a tokenBucket
\* TestTokenBucket (part_013 12-31): one bucket made by newTokenBucket(R),
\* take() called on it, here by goroutines that run at the same time.
TheBucket == 1

InitBucket ==
    /\ managers = EmptyMap
    /\ configs = EmptyMap
    /\ ctxDone = FALSE
    /\ InitStartAllVars
    /\ InitCallers
    /\ nextHandle = 1
    /\ InitCache
    /\ enableEventLogging = TRUE
    /\ \E R \in Rates : InitLimiterVars(0, [a \in {TheBucket} |-> R])
    /\ InitExt

NextBucket ==
    \/ Tick
    \/ \E g \in Goroutines : takes < MaxTakes /\ CallTake(g, TheBucket)
    \/ \E g \in Goroutines : TakeLock(g)
    \/ \E g \in Goroutines : TakeReadClock(g)
    \/ \E g \in Goroutines : TakeRefillAdd(g)
    \/ \E g \in Goroutines : TakeRefillCap(g)
    \/ \E g \in Goroutines : TakeConsume(g)
    \/ \E g \in Goroutines : TakeReturn(g)

SpecBucket == InitBucket /\ [][NextBucket]_vars

\* ------------------------------------------- specification: the perIPLimiter
\* checkRateLimit (api.go 1014-1039) once the limiter exists: requests call
\* allow(ip), a changed configuration calls updateLimit, the cleanup ticks;
\* all of it within one tick of the clock.
InitLimiter ==
    /\ managers = EmptyMap
    /\ configs = EmptyMap
    /\ ctxDone = FALSE
    /\ InitStartAllVars
    /\ InitCallers
    /\ nextHandle = 1
    /\ InitCache
    /\ enableEventLogging = TRUE
    /\ \E R \in LimiterRates : InitLimiterVars(R, EmptyMap)
    /\ InitExt

NextLimiter ==
    \/ \E g \in Goroutines : \E ip \in IPs : takes < MaxAllows /\ CallAllow(g, ip)
    \/ \E g \in Goroutines : AllowLock(g)
    \/ \E g \in Goroutines : AllowLookup(g)
    \/ \E g \in Goroutines : AllowTake(g)
    \/ \E r \in LimiterRates : updateLimit(r)
    \/ cleanupRoutine

SpecLimiter == InitLimiter /\ [][NextLimiter]_vars

\* ------------------------------- specification: StartDeploymentInformer
\* One call of StartDeploymentInformer (config.go 185-309) with any options,
\* under a context its owner may cancel at any time.
InitSyncSpec ==
    /\ managers = EmptyMap
    /\ configs = EmptyMap
    /\ ctxDone = FALSE
    /\ InitStartAllVars
    /\ InitCallers
    /\ nextHandle = 1
    /\ InitCache
    /\ enableEventLogging = TRUE
    /\ InitLimiterVars(0, EmptyMap)
    /\ \E opts \in InformerOptions : InitSync(opts)
    /\ InitHttp
    /\ InitReq(0)
    /\ InitMain
    /\ InitLate

NextSync ==
    \/ SiBegin
    \/ SiTick
    \/ InformerSyncs
    \/ WaitPoll
    \/ WaitReturnsTrue
    \/ WaitReturnsFalse
    \/ WatchReturns
    \/ Cancel

SpecSync == InitSyncSpec /\ [][NextSync]_vars

\* ------------------------------------ specification: /clusters, in sequence
\* The API server's /clusters endpoint (api.go 560-649) serving one request
\* at a time.
NextHttpOf(h, methods, max) ==
    \/ \E method \in methods : \E body \in Bodies : \E id \in ApiIDs \cup {0} :
          \E name \in Names :
             requests < max /\ handleClusters(h, method, body, id, name)
    \/ handleClustersCall(h)
    \/ Enter(h)
    \/ AddClusterCheck(h)
    \/ AddClusterConstruct(h)
    \/ AddClusterStoreManager(h)
    \/ AddClusterStoreConfig(h)
    \/ RemoveClusterCheck(h)
    \/ RemoveClusterDeleteManager(h)
    \/ RemoveClusterDeleteConfig(h)
    \/ GetClusters(h)
    \/ GetClusterCount(h)
    \/ handleClustersGetCount(h)
    \/ handleClustersGetRespond(h)
    \/ handleClustersPostRespond(h)
    \/ handleClustersDeleteRespond(h)

NextHttpSeq == NextHttpOf(SeqCaller, Methods, MaxRequests)

SpecHttpSeq == InitServer /\ [][NextHttpSeq]_vars

\* ---------------------------------- specification: /clusters, concurrently
\* The same endpoint with a GET request served while POST and DELETE requests
\* are served on another goroutine (fasthttp runs each request on its own
\* goroutine).
Reader == "h1"
Writer == "h2"

NextHttp ==
    \/ NextHttpOf(Reader, {"GET"}, MaxConcurrentRequests)
    \/ NextHttpOf(Writer, {"POST", "DELETE"}, MaxConcurrentRequests)
    \/ \E h \in Handlers : FatalRace(h)

SpecHttp == InitServer /\ [][NextHttp]_vars

\* ------------------------------------------ specification: requestHandler
\* The API server (api.go 49-133, 1014-1039) with any configured rate limit,
\* serving requests on goroutines that run at the same time, within one tick
\* of the clock.
ReqIPs == {1, 2}

InitRequest ==
    /\ managers = [c \in {PrimaryID} |-> 1]
    /\ configs = [c \in {PrimaryID} |-> ClusterConfig(PrimaryID, "n1")]
    /\ ctxDone = FALSE
    /\ InitStartAllVars
    /\ InitCallers
    /\ InitCache
    /\ InitLimiterVars(0, EmptyMap)
    /\ InitSync([DisableInformer |-> FALSE, Timeout |-> 1])
    /\ InitHttp
    /\ InitMain
    /\ InitLate
    /\ \E cfg \in RateLimitCfgs : InitReq(cfg)
    /\ enableEventLogging = TRUE
    /\ nextHandle = 2

NextRequest ==
    \/ \E g \in Goroutines : \E ip \in ReqIPs : \E path \in Paths :
          handled < MaxHandled /\ requestHandler(g, ip, path)
    \/ \E g \in Goroutines : checkRateLimitLock(g)
    \/ \E g \in Goroutines : checkRateLimitRead(g)
    \/ \E g \in Goroutines : checkRateLimit(g)
    \/ \E g \in Goroutines : checkRateLimitCallAllow(g)
    \/ \E g \in Goroutines : AllowLock(g)
    \/ \E g \in Goroutines : AllowLookup(g)
    \/ \E g \in Goroutines : checkRateLimitReturns(g)
    \/ \E g \in Goroutines : route(g)
    \/ ipLimiter /\ cleanupRoutine

SpecRequest == InitRequest /\ [][NextRequest]_vars

\* ------------------------------- specification: the lifecycle of the tasks
\* StartAPIServer (api.go 702-806) with any clusters registered: StartAll runs
\* on its goroutine and the context may be cancelled; in addition either a
\* request removes a cluster, or a signal or the cancellation leads to StopAll
\* and the server's shutdown.
LifecycleIDs == {1, 2}

InitLifecycle ==
    /\ \E S \in SUBSET LifecycleIDs :
          /\ managers = [c \in S |-> c]
          /\ configs = [c \in S |-> ClusterConfig(c, "n1")]
    /\ ctxDone = FALSE
    /\ InitStartAllVars
    /\ InitCallers
    /\ InitCache
    /\ InitLimiterVars(0, EmptyMap)
    /\ InitExt
    /\ enableEventLogging = TRUE
    /\ nextHandle = MaxClusters + 1

NextRemove ==
    \/ NextStartAll
    \/ \E id \in LifecycleIDs : calls < MaxRemoves /\ CallRemoveCluster(SeqCaller, id)
    \/ Enter(SeqCaller)
    \/ FatalRace(SeqCaller)
    \/ RemoveClusterCheck(SeqCaller)
    \/ RemoveClusterDeleteManager(SeqCaller)
    \/ RemoveClusterDeleteConfig(SeqCaller)
    \/ Finish(SeqCaller)

SpecRemove == InitLifecycle /\ [][NextRemove]_vars

NextShutdown ==
    \/ NextStartAll
    \/ Signal
    \/ ShutdownSelect
    \/ StopAll
    \/ ServerShutdown

SpecShutdown == InitLifecycle /\ [][NextShutdown]_vars

\* ------------------------------------------------------- claims on StartAll
\* C1: when a task reported a Start error while the context was not cancelled
\* (and it still is not at the return), StartAll returns a non-nil error that
\* wraps a failed task's error.
C1_FailFast ==
    (saPc = "returned" /\ retSnap.reported # {} /\ ~retSnap.ctx)
        => (saRet.kind = "startErr" /\ saRet.id \in retSnap.reported)

\* C2: when the context was cancelled at the call or while tasks ran, and no
\* task reported a failure, StartAll returns the context's cancellation error.
C2_CancelReturnsCtxErr ==
    (saPc = "returned" /\ cancelledInFlight /\ reported = {})
        => saRet = ErrCanceled

\* C3: whenever StartAll returns with the context cancelled and no task having
\* reported an error, every task goroutine it launched has exited.
C3_JoinOnCancel ==
    (saPc = "returned" /\ retSnap.ctx /\ retSnap.reported = {})
        => retSnap.running = {}

C3_Witness ==
    /\ saPc = "returned"
    /\ saRet = ErrCanceled
    /\ retSnap.ctx
    /\ retSnap.reported = {}
    /\ Cardinality(visited) >= 2
    /\ \A c \in visited : task[c] = "exited"

\* C4: when every task's Start returned nil and the context is not cancelled,
\* StartAll returns nil, and only after every task has exited.
C4_CleanExit ==
    (saPc = "returned" /\ ~retSnap.ctx /\ retSnap.failed = {})
        => (saRet = ErrNil /\ retSnap.running = {})

C4_Witness ==
    /\ saPc = "returned"
    /\ ~ctxDone
    /\ failed = {}
    /\ saRet = ErrNil
    /\ Cardinality(visited) >= 2
    /\ \A c \in visited : task[c] = "exited"

\* ----------------------------------------------------- claims on the registry
\* The registry as a call found it / as it is now.
RegistryUnchanged(h) ==
    /\ managers = hSnap[h].managers
    /\ configs = hSnap[h].configs

\* C5: AddCluster with a ClusterID that is already registered returns an error,
\* and an AddCluster that returns an error (duplicate, or construction of the
\* manager failed) leaves the registry as it was before the call.
C5_AddFailureLeavesRegistry ==
    \A h \in Handlers :
        (hPc[h].at = "ret" /\ hPc[h].op = "add") =>
            /\ (hPc[h].id \in DOMAIN hSnap[h].configs => hRet[h].err = "alreadyExists")
            /\ (hRet[h].err # "nil" => RegistryUnchanged(h))

C5_Witness ==
    \E h \in Handlers :
        /\ hPc[h].at = "ret" /\ hPc[h].op = "add"
        /\ hRet[h].err = "alreadyExists"
        /\ hPc[h].id \in DOMAIN configs
        /\ configs[hPc[h].id].Name # hPc[h].name
        /\ Cardinality(DOMAIN configs) = 2

\* C6: RemoveCluster(id) of a registered id returns nil, removes exactly that
\* entry and lowers GetClusterCount by one; of an id that is not registered it
\* returns an error and leaves the registry unchanged.
C6_RemoveExactlyThatEntry ==
    \A h \in Handlers :
        (hPc[h].at = "ret" /\ hPc[h].op = "remove") =>
            IF hPc[h].id \in DOMAIN hSnap[h].configs
               THEN /\ hRet[h].err = "nil"
                    /\ managers = MapDelete(hSnap[h].managers, hPc[h].id)
                    /\ configs = MapDelete(hSnap[h].configs, hPc[h].id)
                    /\ Cardinality(DOMAIN configs)
                          = Cardinality(DOMAIN hSnap[h].configs) - 1
               ELSE /\ hRet[h].err = "doesNotExist"
                    /\ RegistryUnchanged(h)

\* The scenario of the spec: a and b registered, a removed, a removed again.
C6_Witness ==
    \E h \in Handlers :
        /\ hPc[h].at = "ret" /\ hPc[h].op = "remove"
        /\ hRet[h].err = "doesNotExist"
        /\ okRems[hPc[h].id] = 1
        /\ Cardinality(DOMAIN configs) = 1

\* C7: no two goroutines are inside operations on the same registry map at
\* the same time when one of the operations writes the map.
C7_NoRace ==
    \A a \in InAccess : \A b \in InAccess : ~Conflict(a, b)

\* C8: of the AddCluster calls for one ClusterID at most one succeeds while
\* the ID stays registered: successful adds exceed successful removes by at
\* most one.
C8_OneHandlePerID ==
    \A c \in ClusterIDs :
        okAdds[c] + (IF c = PrimaryID THEN 1 ELSE 0) - okRems[c] <= 1

\* C9: a cluster added by a request that succeeded while StartAll was under
\* way has its task started eventually (unless the context is cancelled, the
\* cluster is removed again or the process died).
AddedAtRuntime(c) ==
    /\ saPc \notin {"idle", "returned"}
    /\ \E h \in Handlers :
          /\ hPc[h].at = "ret" /\ hPc[h].op = "add" /\ hPc[h].id = c
          /\ hRet[h].err = "nil"

C9_EventuallyMonitored ==
    \A c \in ApiIDs :
        AddedAtRuntime(c) ~>
            (task[c] # "none" \/ ctxDone \/ fatal \/ c \notin DOMAIN managers)

Entries(log, msg) == {i \in 1..Len(log) : log[i].msg = msg}

\* A step that delivers an update of one Deployment to UpdateFunc.
IsUpdate == lastEv' = Event("update", AsDeployment(0), AsDeployment(0))

\* C11: an update notification whose new object has the resource version of
\* the old, cached object changes nothing, each time it is delivered: the cache
\* is as before and the handler writes no log entry at all (no processing, no
\* 'Deployment updated', 'scaled' or 'image updated').
C11_UpdateIdempotent ==
    [][(/\ IsUpdate
        /\ \A k \in DOMAIN cache :
              k \in DOMAIN cache'
                 /\ cache'[k].ResourceVersion = cache[k].ResourceVersion)
          => (cache' = cache /\ evLog' = <<>>)]_vars

\* A cached Deployment was delivered again under its resource version, with
\* event logging on.
C11_Witness ==
    /\ lastEv = Event("update", AsDeployment(0), AsDeployment(0))
    /\ evLog = <<>>
    /\ enableEventLogging
    /\ FindDeploymentInCache("default", "web").found
    /\ lastNote[<<"default", "web">>].kind = "update"

C19_TombstoneDelete ==
    [][\A key \in DeployKeys :
          (/\ lastEv' = Event("delete", 0, AsTombstone(AsDeployment(0)))
           /\ FindDeploymentInCache(key[1], key[2]).found
           /\ InformerDelete(FindDeploymentInCache(key[1], key[2]).obj, TRUE))
          => LET d == FindDeploymentInCache(key[1], key[2]).obj
             IN  /\ evLog' = DeleteFunc(AsDeployment(d))
                 /\ evLog'[1] = LogEntry("debug", "Processing delete event", d)
                 /\ \A i \in 1..Len(evLog') : evLog'[i].level # "warn"
                 /\ ~FindDeploymentInCache(key[1], key[2])'.found]_vars

\* A monitored Deployment was deleted by tombstone while others stay cached.
C19_Witness ==
    /\ lastEv = Event("delete", 0, AsTombstone(AsDeployment(0)))
    /\ Entries(evLog, "Monitored deployment was deleted") # {}
    /\ lastNote[<<"default", "web">>].kind = "delete"
    /\ FindDeploymentInCache("prod", "web").found

\* The notification's payload fails the handler's type assertions.
TypeMismatch(ev) ==
    CASE ev.kind = "add" -> ev.newType # "Deployment"
      [] ev.kind = "update" -> ev.oldType # "Deployment" \/ ev.newType # "Deployment"
      [] ev.kind = "delete" ->
            ev.newType \notin {"Deployment", "DeletedFinalStateUnknown of Deployment"}
      [] OTHER -> FALSE

\* C20: a notification whose payload is not a Deployment (or a tombstone that
\* does not wrap one) is logged and dropped: the handler writes one warning
\* and nothing else (it runs no event processing), and the cache is as before.
C20_PayloadTypeErrors ==
    [][TypeMismatch(lastEv')
          => /\ cache' = cache
             /\ Len(evLog') = 1
             /\ evLog'[1].level = "warn"]_vars

\* A tombstone wrapping another type arrived while Deployments were cached.
C20_Witness ==
    /\ lastEv = Event("delete", 0, AsTombstone(AsOther(0)))
    /\ evLog = <<Warn("Tombstone contained non-deployment object")>>
    /\ Cardinality(DOMAIN cache) >= 2

\* ------------------------------------------------ claims on the tokenBucket
\* The number of calls in res that were admitted.
Grants(res) == Cardinality({i \in 1..Len(res) : res[i]})

\* C13: a bucket made with rate R starts full, tokens = capacity = R (and R is
\* its refill rate); while no time has passed since, the take() calls return
\* true for the first R of them and false from the (R+1)th on.
C13_Burst ==
    \A b \in DOMAIN buckets :
        /\ buckets[b].capacity = buckets[b].refillRate
        /\ now = born[b] =>
              /\ buckets[b].tokens = buckets[b].capacity - Grants(results[b])
              /\ \A i \in 1..Len(results[b]) :
                    results[b][i] = (i <= buckets[b].capacity)

\* A bucket of the largest rate has admitted R calls and denied the next.
C13_Witness ==
    /\ now = born[TheBucket]
    /\ buckets[TheBucket].capacity = MaxRate
    /\ Len(results[TheBucket]) = MaxRate + 1
    /\ ~results[TheBucket][MaxRate + 1]

\* C14: a take() at clock reading t computes newTokens = floor((t - lastRefill)
\* * rate); if that is positive the tokens become min(capacity, tokens +
\* newTokens) and lastRefill becomes t, otherwise both stay; then a token is
\* taken if there is one. So a take() that comes 1/rate seconds or more after
\* lastRefill is admitted, whatever was denied in between.
C14_Refill ==
    lastTake.b # 0 =>
        LET elapsed == lastTake.now - lastTake.lastRefill0
            n == (elapsed * lastTake.rate) \div TicksPerSec
            sum == lastTake.tokens0 + n
            refilled == IF n > 0
                           THEN (IF sum > lastTake.capacity THEN lastTake.capacity ELSE sum)
                           ELSE lastTake.tokens0
        IN  /\ lastTake.newTokens = n
            /\ lastTake.lastRefill1 = IF n > 0 THEN lastTake.now ELSE lastTake.lastRefill0
            /\ lastTake.ret = (refilled > 0)
            /\ lastTake.tokens1 = IF lastTake.ret THEN refilled - 1 ELSE refilled
            /\ (elapsed * lastTake.rate >= TicksPerSec => lastTake.ret)

\* A bucket of rate 1 was emptied, denied a call half way through the second
\* and admitted one when the second was over.
C14_Witness ==
    /\ lastTake.b = TheBucket
    /\ lastTake.rate = 1
    /\ lastTake.tokens0 = 0
    /\ (lastTake.now - lastTake.lastRefill0) * lastTake.rate = TicksPerSec
    /\ lastTake.ret
    /\ Len(results[TheBucket]) >= 3
    /\ \E i \in 2..(Len(results[TheBucket]) - 1) : ~results[TheBucket][i]

\* C15: the tokens of a bucket are never negative, and exceed the capacity
\* only between the addition and the cap of one refill (api.go 920-922), which
\* the goroutine holding the bucket's mutex runs: whoever takes the mutex
\* finds 0 <= tokens <= capacity, however the take() calls interleave and
\* whatever time has passed.
C15_TokenBounds ==
    \A b \in DOMAIN buckets :
        /\ buckets[b].tokens >= 0
        /\ \/ buckets[b].tokens <= buckets[b].capacity
           \/ \E g \in Goroutines :
                 bucketMu[b] = g /\ gPc[g].b = b /\ gPc[g].at = "cap"

\* A refill that had to be capped has happened while the other goroutine was
\* waiting for the mutex.
C15_Witness ==
    /\ lastTake.b = TheBucket
    /\ lastTake.tokens0 + lastTake.newTokens > lastTake.capacity
    /\ lastTake.tokens1 = lastTake.capacity - 1
    /\ \E g \in Goroutines : gPc[g].at = "lock"

\* ----------------------------------------------- claims on the perIPLimiter
\* The identity a goroutine's step belongs to.
StepIP(g) == IF gPc[g].at = "idle" THEN gPc'[g].ip ELSE gPc[g].ip

\* C16: no step of allow(A) changes the table entry or the bucket of another
\* identity B; and each identity's own calls are admitted up to its bucket's
\* capacity and denied after, whatever the other identities did.
C16_Isolation ==
    /\ [][\A g \in Goroutines :
             gPc'[g] # gPc[g] =>
                \A B \in (DOMAIN limiters) \ {StepIP(g)} :
                    /\ B \in DOMAIN limiters'
                    /\ limiters'[B] = limiters[B]
                    /\ buckets'[limiters[B]] = buckets[limiters[B]]]_vars
    /\ [](\A b \in DOMAIN buckets : \A i \in 1..Len(results[b]) :
             results[b][i] = (i <= buckets[b].capacity))

\* Identity 1 has used up its budget of one and was denied; identity 2 is
\* admitted.
C16_Witness ==
    /\ {1, 2} \subseteq DOMAIN limiters
    /\ limiters[1] # limiters[2]
    /\ results[limiters[1]] = <<TRUE, FALSE>>
    /\ results[limiters[2]] = <<TRUE>>

\* C17: updateLimit(r) leaves the set of identities as it is and gives each a
\* new, full bucket with capacity = refill rate = tokens = r that no call has
\* touched; and every bucket of the table, also of an identity first seen
\* later, has the limiter's current rate as its capacity.
C17_UpdateLimit ==
    /\ [][\A r \in LimiterRates :
             updateLimit(r) =>
                /\ DOMAIN limiters' = DOMAIN limiters
                /\ tokensPerSec' = r
                /\ \A ip \in DOMAIN limiters' :
                      /\ buckets'[limiters'[ip]] =
                            [tokens |-> r, capacity |-> r, refillRate |-> r,
                             lastRefill |-> now]
                      /\ results'[limiters'[ip]] = <<>>
                      /\ \A g \in Goroutines : gPc'[g].b # limiters'[ip]
                      /\ \A other \in DOMAIN limiters' :
                            limiters'[other] = limiters'[ip] => other = ip]_vars
    /\ [](\A ip \in DOMAIN limiters :
             /\ buckets[limiters[ip]].capacity = tokensPerSec
             /\ buckets[limiters[ip]].refillRate = tokensPerSec)

\* The rate was changed while two identities were known and a request was
\* about to take from the bucket its identity had before.
C17_Witness ==
    /\ lastOp = "update"
    /\ Cardinality(DOMAIN limiters) = 2
    /\ \A ip \in DOMAIN limiters : buckets[limiters[ip]].tokens = tokensPerSec
    /\ \E g \in Goroutines :
          /\ gPc[g].at = "lock"
          /\ gPc[g].b \notin {limiters[ip] : ip \in DOMAIN limiters}

\* C18: a tick of the cleanup replaces the table by an empty one if it holds
\* more identities than the ceiling, and otherwise leaves the table and its
\* buckets as they are; after the tick the table holds at most the ceiling.
C18_CoarseEviction ==
    [][cleanupRoutine =>
          /\ IF Cardinality(DOMAIN limiters) > CleanupCeiling
                THEN limiters' = EmptyMap
                ELSE /\ limiters' = limiters
                     /\ \A ip \in DOMAIN limiters :
                           buckets'[limiters[ip]] = buckets[limiters[ip]]
          /\ Cardinality(DOMAIN limiters') <= CleanupCeiling]_vars

\* The table grew past the ceiling and was cleared while a request still held
\* a bucket of it.
C18_Witness ==
    /\ lastOp = "cleanup"
    /\ limiters = EmptyMap
    /\ \E g \in Goroutines : gPc[g].b # 0

\* ------------------------------------------ claims on StartDeploymentInformer
Logged(msg) == \E i \in 1..Len(siLog) : siLog[i] = msg

\* C21: the sync wait is made once and never retried; when it ends without
\* the cache synced the function returns the timeout error and never enters
\* the watching state; when it ends before timeoutCtx is done the function
\* enters the watching state, and from there it returns nil only once the
\* context is cancelled; a return is final.
C21_SyncTimeoutFatal ==
    /\ [](/\ siWaits <= 1
          /\ (siRet = SiTimedOut =>
                 siPc = "returned" /\ TimeoutCtxDone /\ ~Logged(MsgSynced))
          /\ (siPc = "watching" => hasSynced /\ siRet = SiNone /\ Logged(MsgSynced))
          /\ (siRet = SiNil =>
                 \/ siOpts.DisableInformer
                 \/ ctxDone /\ hasSynced /\ Logged(MsgSynced)))
    /\ [][/\ (siPc = "waiting" /\ siPc' # "waiting" /\ ~hasSynced)
                => (siPc' = "returned" /\ siRet' = SiTimedOut)
          /\ (siPc = "waiting" /\ siPc' # "waiting" /\ ~TimeoutCtxDone)
                => siPc' = "watching"
          /\ siPc = "returned"
                => (siPc' = "returned" /\ siRet' = siRet /\ siLog' = siLog
                    /\ siWaits' = siWaits)]_vars

\* The timer of timeoutCtx fired after polls that found the cache not synced,
\* and the function returned the error while ctx was not cancelled.
C21_Witness ==
    /\ siRet = SiTimedOut
    /\ ~ctxDone
    /\ ~hasSynced
    /\ siElapsed = siOpts.Timeout
    /\ siPolls > 0

\* C38: the function returns the 'timed out waiting for deployment informer
\* cache to sync' error only when the configured sync timeout has elapsed; a
\* cancellation of the parent context during the wait does not end in it.
C38_CancelNotTimeout ==
    siRet = SiTimedOut => siElapsed >= siOpts.Timeout

\* ---------------------------------------------------- claims on /clusters
\* The request the sequential caller has answered.
Answered(method) == http[SeqCaller].at = "done" /\ http[SeqCaller].method = method

\* The registry is as it was when the request began.
RegistryAsBefore(req) == managers = req.reg0.managers /\ configs = req.reg0.configs

\* C22: a POST /clusters is answered 201, 400 or 500; 201 exactly when the
\* ClusterID was not registered before the request and is registered by it
\* (a new manager and the request's config); a body without cluster_id is
\* answered 400, a duplicate ClusterID 500, and after a 400 or a 500 the
\* registry is as it was before the request.
C22_PostStatus ==
    Answered("POST") =>
       LET req == http[SeqCaller]
           new == /\ req.id \notin DOMAIN req.reg0.configs
                  /\ req.id \in DOMAIN configs /\ req.id \in DOMAIN managers
                  /\ configs[req.id] = ClusterConfig(req.id, req.name)
                  /\ \A c \in DOMAIN req.reg0.managers :
                        req.reg0.managers[c] # managers[req.id]
       IN  /\ req.status \in {StatusCreated, StatusBadRequest, StatusInternalServerError}
           /\ req.status = StatusCreated <=> new
           /\ (req.body = "badJSON" \/ req.id = 0) => req.status = StatusBadRequest
           /\ req.id \in DOMAIN req.reg0.configs => req.status = StatusInternalServerError
           /\ req.status # StatusCreated => RegistryAsBefore(req)

\* A POST was answered 201 and, later, a POST of the same ClusterID 500.
C22_Witness ==
    /\ Answered("POST")
    /\ http[SeqCaller].status = StatusInternalServerError
    /\ http[SeqCaller].id \in DOMAIN http[SeqCaller].reg0.configs
    /\ okAdds[http[SeqCaller].id] > 0

\* C23: a DELETE /clusters?id=X answered 200 had X registered before the
\* request and not after it; without id the answer is 400 and the registry is
\* as it was.
C23_DeleteStatus ==
    Answered("DELETE") =>
       LET req == http[SeqCaller]
       IN  /\ req.id = 0 => (req.status = StatusBadRequest /\ RegistryAsBefore(req))
           /\ req.status = StatusOK =>
                 /\ req.id \in DOMAIN req.reg0.managers
                 /\ req.id \notin DOMAIN managers
                 /\ req.id \notin DOMAIN configs

\* C24: the count of a GET /clusters response is the number of entries of its
\* clusters map.
C24_ConsistentSnapshot ==
    \A h \in Handlers :
       (http[h].at = "done" /\ http[h].method = "GET" /\ http[h].status = StatusOK)
          => http[h].count = Cardinality(DOMAIN http[h].clusters)

\* ------------------------------------------------- claims on requestHandler
\* C25: a request is dispatched to an endpoint handler only after the
\* limiter admitted it; a request the limiter denied is answered 429 with
\* the retry hint, carries the request ID header and reaches no endpoint
\* handler (so it reads neither the registry nor the cache).
C25_AdmissionBeforeRouting ==
    \A g \in Goroutines :
       /\ rq[g].handler # "none" => rq[g].admitted = "yes"
       /\ rq[g].admitted = "no" =>
             /\ rq[g].at = "done"
             /\ rq[g].status = StatusTooManyRequests
             /\ rq[g].body = RetryHint
             /\ rq[g].requestID
             /\ rq[g].handler = "none"

\* C35: under any interleaving of concurrent first requests, newPerIPLimiter
\* is called once; every bucket that was made is the table's bucket of one
\* identity, one per identity, and a request consumes from the table's bucket
\* of its identity; with no time elapsed (none passes here) the calls on a
\* bucket are admitted up to its capacity and denied after.
C35_LazyCreationAtomic ==
    /\ limitersMade <= 1
    /\ Cardinality(DOMAIN buckets) = Cardinality(DOMAIN limiters)
    /\ \A ip \in DOMAIN limiters : limiters[ip] \in DOMAIN buckets
    /\ \A g \in Goroutines :
          gPc[g].b # 0 =>
             (gPc[g].ip \in DOMAIN limiters /\ limiters[gPc[g].ip] = gPc[g].b)
    /\ \A b \in DOMAIN buckets :
          /\ now = born[b]
          /\ \A i \in 1..Len(results[b]) : results[b][i] = (i <= buckets[b].capacity)

\* Both goroutines are in the first allow() of one identity, each holding
\* the one bucket made for it, from which nothing has been taken yet.
C35_Witness ==
    /\ limitersMade = 1
    /\ \E ip \in DOMAIN limiters :
          /\ results[limiters[ip]] = <<>>
          /\ \A g \in Goroutines :
                gPc[g].at = "lock" /\ gPc[g].ip = ip /\ gPc[g].b = limiters[ip]

\* What the bucket at b may have admitted by now: its capacity R and the
\* floor(R * T) tokens of the T seconds since it was made.
AdmissionBound(b) ==
    buckets[b].capacity
       + (buckets[b].capacity * (now - born[b])) \div TicksPerSec

\* C36: with the rate unchanged and the table not cleaned, the calls an
\* identity's bucket has admitted since it was made number at most
\* R + floor(R * T), however the calls interleave and whenever they come.
C36_AdmissionBound ==
    \A ip \in DOMAIN limiters :
        /\ buckets[limiters[ip]].capacity = tokensPerSec
        /\ Grants(results[limiters[ip]]) <= AdmissionBound(limiters[ip])

\* An identity was admitted R + floor(R * T) times in a time T that is not a
\* whole number of refill periods, and was denied as well.
C36_Witness ==
    \E ip \in DOMAIN limiters :
        LET b == limiters[ip]
        IN  /\ ((now - born[b]) * buckets[b].capacity) % TicksPerSec # 0
            /\ now - born[b] > TicksPerSec
            /\ Grants(results[b]) = AdmissionBound(b)
            /\ Grants(results[b]) < Len(results[b])

\* ------------------------------------------- claims on the tasks' lifecycle
\* A step of the caller inside RemoveCluster.
RemoveStep == hPc[SeqCaller].op = "remove" /\ hPc'[SeqCaller] # hPc[SeqCaller]

\* C26: every step of RemoveCluster(id) leaves StartAll, the channels, the
\* context and every task as they are, and changes the registry at most by
\* deleting id's entries; so a launched task of id stays as it was, and what
\* ends it is its own Start returning.
C26_RemoveOnlyDeregisters ==
    [][RemoveStep =>
          LET id == hPc[SeqCaller].id
          IN  /\ saVars' = saVars
              /\ managers' \in {managers, MapDelete(managers, id)}
              /\ configs' \in {configs, MapDelete(configs, id)}]_vars

\* RemoveCluster returned nil for a cluster whose task StartAll launched; the
\* task is still running and the context is not cancelled.
C26_Witness ==
    \E c \in LifecycleIDs :
       /\ okRems[c] > 0
       /\ c \notin DOMAIN managers /\ c \notin DOMAIN configs
       /\ task[c] = "running"
       /\ ~ctxDone

\* C27: StopAll changes neither the registry nor StartAll, the channels, the
\* context or any task, and it can run whatever the tasks are doing.
C27_StopAllBookkeeping ==
    /\ [][apiPc = "stopAll" /\ apiPc' # "stopAll"
             => regVars' = regVars /\ saVars' = saVars]_vars
    /\ [](apiPc = "stopAll" => ENABLED StopAll)

\* After a signal StopAll has returned and the server is shut down while
\* tasks are running and the context is not cancelled.
C27_Witness ==
    /\ apiPc = "returned"
    /\ Len(stopLog) > 1
    /\ Running # {}
    /\ ~ctxDone

\* ------------------------------------------- claims on StartAll's channels
\* Errors StartAll received from errorCh.
Received == Cardinality(reported) - Len(errorCh)

\* Every Start call of a launched task has returned.
AllStartsReturned ==
    /\ saPc \notin {"idle", "range"}
    /\ jPc # "none"
    /\ \A c \in visited : task[c] # "running"

\* C28: StartAll receives at most one error; a task that is about to send its
\* error never finds the buffer full or the channel closed, whether StartAll
\* has returned or not, since the buffer has room for one error of each
\* task; and once every Start call has returned, every task goroutine and the
\* joiner terminate.
C28_FirstErrorOnly ==
    /\ [](/\ Received <= 1
          /\ ~panicked
          /\ Cardinality(visited) <= chanCap
          /\ \A c \in ClusterIDs :
                task[c] = "sending" => (Len(errorCh) < chanCap /\ ~errorChClosed))
    /\ (AllStartsReturned
           ~> ((\A c \in visited : task[c] = "exited") /\ jPc = "done"))

\* C29: StartAll's return of a task's error changes no task and not the
\* context; a step of one task changes no other task and not the context; the
\* context is cancelled by its owner's step only, which moves neither StartAll
\* nor a task.
C29_FailureIsolation ==
    [][/\ (saRet' # saRet /\ saRet'.kind = "startErr")
             => (task' = task /\ ctxDone' = ctxDone /\ wg' = wg)
       /\ \A c \in ClusterIDs :
             task'[c] # task[c]
                => (ctxDone' = ctxDone /\ \A d \in ClusterIDs \ {c} : task'[d] = task[d])
       /\ ctxDone' # ctxDone => (task' = task /\ saPc' = saPc /\ jPc' = jPc)]_vars

\* StartAll returned one task's error while the context is not cancelled and
\* a sibling that was running at the failure is still running.
C29_Witness ==
    /\ saPc = "returned"
    /\ saRet.kind = "startErr"
    /\ ~ctxDone
    /\ retSnap.running # {}
    /\ \E c \in retSnap.running : task[c] = "running"

\* C34: doneCh and errorCh are each closed once, by the joiner (doneCh from
\* its wg.Wait, errorCh right after), and only when every task goroutine
\* that was launched has finished; a closed channel stays closed and no task
\* sends on the closed errorCh.
C34_SafeClose ==
    /\ [](/\ ~panicked
          /\ doneChClosed => (wg = 0 /\ \A c \in visited : task[c] = "exited")
          /\ errorChClosed => (doneChClosed /\ jPc = "done")
          /\ \A c \in ClusterIDs : task[c] = "sending" => ~errorChClosed)
    /\ [][/\ doneChClosed' # doneChClosed
                => (~doneChClosed /\ jPc = "wait" /\ jPc' = "closeErr")
          /\ errorChClosed' # errorChClosed
                => (~errorChClosed /\ jPc = "closeErr" /\ jPc' = "done")
          /\ jPc = "done" => jPc' = "done"]_vars

\* Two tasks ran, one reported an error, and the joiner closed both channels
\* after both had finished.
C34_Witness ==
    /\ doneChClosed
    /\ errorChClosed
    /\ jPc = "done"
    /\ Cardinality(visited) >= 2
    /\ reported # {}
    /\ \A c \in visited : task[c] = "exited"

\* C33: once the context is cancelled, and with every manager's Start
\* returning after its context is cancelled, a StartAll that has begun
\* returns: no branch of its select waits for ever.
C33_TerminatesAfterCancel ==
    (ctxDone /\ saPc # "idle") ~> (saPc = "returned" \/ fatal)

\* ------------------------------------------------- claims on event logging
\* C30: with opts.EnableEventLogging = false the handler of an add, update or
\* delete notification writes no info-level entry: no 'Deployment added',
\* 'updated' or 'deleted', no 'Deployment scaled', no 'Deployment image
\* updated' and no monitored-deployment entry.
C30_LoggingGated ==
    ~enableEventLogging =>
        \A i \in 1..Len(evLog) : evLog[i].level # "info"

\* ------------------------------- specification: allow() while time passes
\* Requests of two identities call allow() concurrently while the clock runs;
\* the rate is not changed and the table is not cleaned.
NextAllowTimed ==
    \/ \E g \in Goroutines : \E ip \in ReqIPs : takes < MaxAllows /\ CallAllow(g, ip)
    \/ \E g \in Goroutines : AllowLock(g)
    \/ \E g \in Goroutines : AllowLookup(g)
    \/ \E g \in Goroutines : AllowTake(g)
    \/ Tick

SpecAllowTimed == InitLimiter /\ [][NextAllowTimed]_vars

\* ------------------------------------ specification: GET /deployments
\* StartComponents (runtime.go 19-130): the factory of the API server, the
\* informer of StartDeploymentInformer with its notifications, and requests
\* to GET /deployments.
InitDeploymentsSpec ==
    /\ managers = EmptyMap
    /\ configs = EmptyMap
    /\ ctxDone = FALSE
    /\ InitStartAllVars
    /\ InitCallers
    /\ nextHandle = 1
    /\ InitCache
    /\ enableEventLogging = TRUE
    /\ InitLimiterVars(0, EmptyMap)
    /\ InitSync([DisableInformer |-> FALSE, Timeout |-> 1])
    /\ InitHttp
    /\ InitReq(0)
    /\ InitMain
    /\ \E nil \in BOOLEAN : InitDeployments(nil)
    /\ InitMux
    /\ InitTail

NextDeployments ==
    \/ FactoryStart
    \/ \E d \in Deployments : InformerUpsert(d)
    \/ \E d \in Deployments : InformerDelete(d, FALSE)
    \/ \E namespace \in Namespaces : handleDeployments(namespace)

SpecDeployments == InitDeploymentsSpec /\ [][NextDeployments]_vars

\* C32: a GET /deployments is answered 503 when the server has no factory;
\* otherwise it is answered 200 with every Deployment the informer has
\* applied an add (or update) for and no delete since, whose namespace the
\* filter admits.
C32_ApiReadsWrittenCache ==
    [][depResp'.n # depResp.n
          => IF apiFactory.nil
                THEN depResp'.code = StatusServiceUnavailable
                ELSE /\ depResp'.code = StatusOK
                     /\ ListDeploymentsInCache(depResp'.namespace) \subseteq depResp'.items]_vars

\* ------------------------------------------------ claims on re-delivery
\* A step in which the informer took an added, modified or re-listed
\* Deployment from the watch.
UpsertStep ==
    /\ lastEv'.kind \in {"add", "update"}
    /\ lastEv'.newType = "Deployment"
    /\ lastEv'.oldType \in {"", "Deployment"}

NextNilReplicas ==
    \/ \E d \in NilableDeployments : InformerUpsertNilable(d)
    \/ \E d \in NilableDeployments : derefPanic = "" /\ InformerDelete(d, FALSE)
    \/ \E d \in NilableDeployments : eventLoggerCreateFunc(d)
    \/ \E hasOld \in BOOLEAN : \E old, d \in NilableDeployments :
          /\ old.Namespace = d.Namespace /\ old.Name = d.Name
          /\ eventLoggerUpdateFunc(hasOld, old, d)
    \/ \E d \in NilableDeployments : eventLoggerDeleteFunc(d)

SpecNilReplicas == InitInformer /\ [][NextNilReplicas]_vars

\* ------------------------------------------ claims on unset replica counts
\* C37: the add and update processing of the informer and the create and
\* update logging of the cluster controller complete without panicking for
\* every Deployment they are handed, one with Spec.Replicas nil included: no
\* handler dereferences a nil replica count.
C37_NoNilDeref == derefPanic = ""

\* ---------------------------------- specification: StartAPIServer's sigChan
\* StartAPIServer as in the lifecycle of the tasks, with the server's
\* goroutine that may fail and signals that may arrive at any time, until
\* the process panics.
NextSignal ==
    \/ ~sigPanic /\ NextStartAll
    \/ ~sigPanic /\ ~sigChanClosed /\ Signal
    \/ ~sigPanic /\ ListenAndServeFails
    \/ SignalOnClosed
    \/ ~sigPanic /\ ShutdownSelect
    \/ ~sigPanic /\ ShutdownSelectClosed
    \/ ~sigPanic /\ StopAll
    \/ ~sigPanic /\ ServerShutdown

SpecSignal == InitLifecycle /\ [][NextSignal]_vars

\* ------------------------------------------------- claims on the sigChan
\* C39: in no reachable state is a signal sent on a closed channel, a SIGINT
\* or SIGTERM that arrives after ListenAndServe failed included: sigChan, which
\* is registered for the delivery of signals from signal.Notify on, is never
\* closed when a signal is delivered to it.
C39_NoSignalOnClosed == ~sigPanic

\* ------------------------------------------- specification: the MockManager
\* A test makes a MockManager, runs Start on one goroutine, cancels the
\* context at some time and calls IsStarted and IsStopped on other goroutines.
InitMockSpec ==
    /\ managers = EmptyMap
    /\ configs = EmptyMap
    /\ ctxDone = FALSE
    /\ InitStartAllVars
    /\ InitCallers
    /\ nextHandle = 1
    /\ InitCache
    /\ InitLimiterVars(0, EmptyMap)
    /\ InitExt
    /\ enableEventLogging = TRUE

NextMock ==
    \/ \E g \in MockGoroutines : \E fn \in {"Start", "IsStarted", "IsStopped"} :
          MockCall(g, fn)
    \/ \E g \in MockGoroutines : MockLock(g)
    \/ \E g \in MockGoroutines : MockBody(g)
    \/ MockCancel
    \/ \E g \in MockGoroutines : MockCtxDone(g)
    \/ \E g \in MockGoroutines : MockReturn(g)

\* Every goroutine goes on when it can: Start is called, the context is
\* cancelled, a goroutine that can lock the mutex again and again does lock
\* it (sync.Mutex hands a starving waiter the lock), and no step that stays
\* possible is put off for ever.
FairMock ==
    /\ WF_vars(MockCall(Starter, "Start"))
    /\ WF_vars(MockCancel)
    /\ \A g \in MockGoroutines :
          /\ SF_vars(MockLock(g))
          /\ WF_vars(MockBody(g))
          /\ WF_vars(MockCtxDone(g))
          /\ WF_vars(MockReturn(g))

SpecMock == InitMockSpec /\ [][NextMock]_vars /\ FairMock

\* ----------------------------------------------- claims on the MockManager
\* C40: once its context is cancelled, a running Start marks the manager
\* stopped and returns nil, and a call of IsStarted or IsStopped made on
\* another goroutine while Start runs or afterwards returns: it does not wait
\* for the mutex for ever.
C40_StartCompletes ==
    /\ (mock.ctxDone /\ mockPc[Starter].at # "idle")
          ~> (mock.Stopped /\ mockPc[Starter].at = "idle" /\ mockPc[Starter].ret = "nil")
    /\ \A g \in Observers : (mockPc[g].at = "lock") ~> (mockPc[g].at = "idle")

====
